---- MODULE Spec2Model ----
(***************************************************************************)
(* Model of the TRACER-NEXRAD-LMA tracking and plotting scripts            *)
(* (scripts/Tracking/knb_tobac_tracking.py, knb_tobac_plotting.py).        *)
(*                                                                         *)
(* Representation of numbers.                                              *)
(*  - Distances of count_track_neighbors are fixed-point: a real distance  *)
(*    d km is the integer 2 * d (one unit is 0.5 km).  Feature coordinates *)
(*    are grid indices (integers).                                         *)
(*  - Floating-point values of cartesian_to_geographic_aeqd are exact      *)
(*    values with the IEEE specials: <<v>> is the finite value v, NaN is   *)
(*    <<>> and PosInf is <<1, 0>>.  Degrees are integers.  An angle in     *)
(*    radians is kept in quarter turns (q stands for q * pi/2), and the    *)
(*    planar coordinates x, y in units of pi/2 (k stands for k * pi/2 in   *)
(*    the unit of R), so that deg2rad, sin, cos, arcsin and arctan2 are    *)
(*    exact on the multiples of 90 degrees the model draws.                *)
(***************************************************************************)
EXTENDS Integers, Sequences, FiniteSets, TLC

VARIABLES
    \* ---- count_track_neighbors called as a function
    track_ds,             \* the dataset handed to count_track_neighbors
    distance_thresholds,  \* its tuple of radii (fixed-point km)
    grid_spacing,         \* its grid_spacing argument (fixed-point km per cell)
    nbr_pc,               \* "call" before the call, "returned" after it
    nbr_result,           \* the dataset it returns
    \* ---- cartesian_to_geographic_aeqd called as a function
    aeqd_x, aeqd_y,       \* the coordinate arrays
    aeqd_lon_0, aeqd_lat_0, \* the projection origin, degrees
    aeqd_R,               \* the Earth radius
    aeqd_pc,              \* "call" before the call, "returned" after it
    aeqd_result,          \* the pair <<lon_deg, lat_deg>> it returns
    \* ---- loading a script as a module and calling its grid functions
    pyproj_installed,     \* whether the pyproj library can be imported
    pyproj_available,     \* _PYPROJ_AVAILABLE: "unset", "true" or "false"
    grid_script,          \* the script whose module is loaded
    grid_entry,           \* the function called once the module is loaded
    grid_file,            \* what the opened grid dataset holds
    grid_pc,              \* position of the module's top-level code
    ds_open,              \* whether the dataset of load_cfradial_grids is open
    grid_outcome,         \* how the run ended
    \* ---- a run of the tracking script
    data_type,            \* args.data_type
    input,                \* what the files under args.path hold
    fs_dirs,              \* the directories that exist
    fs_files,             \* the files that exist: path -> content
    env,                  \* the names bound at the top level of __main__
    run_pc,               \* the statement group that runs next
    stages,               \* the stages completed so far, in order
    run_error,            \* the exception that ended the run, "" when none
    \* ---- a run of the plotting script
    plot_args,            \* args.data_type, args.path, args.tobacpath
    plot_data,            \* what the input files hold
    plot_fs,              \* directories, PNG files and the write attempts made
    plot_env,             \* the names bound at the top level of __main__
    plot_pc,              \* the statement group that runs next
    figs,                 \* the events of every figure created, in order
    plot_error,           \* the exception that ended the run, "" when none
    \* ---- a call of time_in_range
    tir_start, tir_end, tir_x,   \* the arguments
    tir_pc,               \* "idle", "call" or "returned"
    tir_result,           \* the value returned
    \* ---- a call of plot
    plt_args,             \* t_index and xrdata
    plt_globals,          \* the module globals: both_ds when __main__ bound it
    plt_pc,               \* "idle", "call", "cells", "tracks", "returned", "raised"
    plt_k,                \* the position of the running loop
    plt_axs,              \* the artists added to axs[0], in order
    plt_error             \* the exception that ended the call, "" when none

nbrVars == <<track_ds, distance_thresholds, grid_spacing, nbr_pc, nbr_result>>
aeqdVars == <<aeqd_x, aeqd_y, aeqd_lon_0, aeqd_lat_0, aeqd_R, aeqd_pc, aeqd_result>>
gridVars == <<pyproj_installed, pyproj_available, grid_script, grid_entry, grid_file,
              grid_pc, ds_open, grid_outcome>>
runVars == <<data_type, input, fs_dirs, fs_files, env, run_pc, stages, run_error>>
plotVars == <<plot_args, plot_data, plot_fs, plot_env, plot_pc, figs, plot_error>>
tirVars == <<tir_start, tir_end, tir_x, tir_pc, tir_result>>
pltVars == <<plt_args, plt_globals, plt_pc, plt_k, plt_axs, plt_error>>

vars == <<nbrVars, aeqdVars, gridVars, runVars, plotVars, tirVars, pltVars>>

(***************************************************************************)
(* Bounds of the model                                                     *)
(***************************************************************************)
MaxFeatures == 3     \* features in a dataset
MaxCoord == 1        \* grid indices run over 0..MaxCoord
MaxRadius == 3       \* radii run over 0..MaxRadius units
MaxDist == 2         \* |x|, |y| run over 0..MaxDist (units of pi/2)
MaxLonQ == 6         \* lon_0 runs over 90 * (-MaxLonQ..MaxLonQ) degrees
MaxTime == 4         \* start, end and x run over 0..MaxTime
MaxR == 2            \* R runs over 0..MaxR

(***************************************************************************)
(* Datasets: a function from variable names to columns on 'feature'.       *)
(* A name is a pair <<text, n>>; n is the integer formatted into the name  *)
(* (NoInt for names without one).                                          *)
(***************************************************************************)
NoInt == 0 - 1
VarName(s) == <<s, NoInt>>

TimeVar == VarName("feature_time_index")
Hdim1Var == VarName("feature_hdim1_coordinate")
Hdim2Var == VarName("feature_hdim2_coordinate")

\* int(distance_threshold): truncation of a non-negative fixed-point value
IntPart(r) == r \div 2

\* 'feature_nearby_count_{0}km'.format(int(distance_threshold))
NearbyVarName(r) == <<"feature_nearby_count_km", IntPart(r)>>

\* xarray Dataset.assign(**{name: (['feature'], col)}): add or replace one variable
assign(ds, name, col) ==
    [n \in (DOMAIN ds) \cup {name} |-> IF n = name THEN col ELSE ds[n]]

\* track_ds["feature"].values, as positions 1..n
FeatureIdx(ds) == 1 .. Len(ds[TimeVar])

\* np.vstack((hdim2, hdim1)).T with both columns multiplied by grid_spacing
Pts(ds, gs) ==
    [i \in FeatureIdx(ds) |-> <<ds[Hdim2Var][i] * gs, ds[Hdim1Var][i] * gs>>]

\* the members of one group of track_ds.groupby('feature_time_index'), in order
RECURSIVE GroupMembers(_, _, _)
GroupMembers(ds, t, i) ==
    IF i > Len(ds[TimeVar]) THEN <<>>
    ELSE (IF ds[TimeVar][i] = t THEN <<i>> ELSE <<>>) \o GroupMembers(ds, t, i + 1)

\* KDTree(pts) over the points of the group of time index t
KDTree(ds, gs, t) ==
    LET members == GroupMembers(ds, t, 1)
    IN  [k \in 1 .. Len(members) |-> Pts(ds, gs)[members[k]]]

\* squared Euclidean distance of two points
Dist2(p, q) == (p[1] - q[1]) * (p[1] - q[1]) + (p[2] - q[2]) * (p[2] - q[2])

\* tree.query_ball_point(p, r): the tree's points at distance <= r of p
query_ball_point(tree, p, r) ==
    {k \in 1 .. Len(tree) : Dist2(tree[k], p) <= r * r}

\* the inner loop: num_obj for one distance_threshold; one is subtracted for
\* the feature itself, which is a point of its own tree
NumObj(ds, gs, r) ==
    [i \in FeatureIdx(ds) |->
        Cardinality(query_ball_point(KDTree(ds, gs, ds[TimeVar][i]), Pts(ds, gs)[i], r))
            - 1]

\* the loop over distance_thresholds, from position k on
RECURSIVE ThresholdLoop(_, _, _, _, _)
ThresholdLoop(cur, orig, thresholds, gs, k) ==
    IF k > Len(thresholds) THEN cur
    ELSE ThresholdLoop(assign(cur, NearbyVarName(thresholds[k]), NumObj(orig, gs, thresholds[k])),
                       orig, thresholds, gs, k + 1)

count_track_neighbors(ds, thresholds, gs) == ThresholdLoop(ds, ds, thresholds, gs, 1)

(***************************************************************************)
(* count_track_neighbors on synthetic point sets                           *)
(***************************************************************************)
NoDataset == [n \in {} |-> <<>>]

TimeIndices == {0, 1}     \* values of feature_time_index
TupleLengths == {1, 2}    \* lengths of the distance_thresholds tuple
Spacings == {1, 2}        \* grid_spacing: 0.5 km (the default) and 1 km per cell

\* the datasets of n0 features
Datasets(n0) ==
    { [n \in {TimeVar, Hdim1Var, Hdim2Var} |->
          IF n = TimeVar THEN t ELSE IF n = Hdim1Var THEN h1 ELSE h2] :
      t \in [1 .. n0 -> TimeIndices],
      h1 \in [1 .. n0 -> 0 .. MaxCoord],
      h2 \in [1 .. n0 -> 0 .. MaxCoord] }

IsDistinct(s) == \A a, b \in 1 .. Len(s) : a # b => s[a] # s[b]

ThresholdTuples ==
    UNION { {s \in [1 .. k -> 0 .. MaxRadius] : IsDistinct(s)} : k \in TupleLengths }

NbrIdle ==
    /\ track_ds = NoDataset
    /\ distance_thresholds = <<>>
    /\ grid_spacing = 0
    /\ nbr_pc = "idle"
    /\ nbr_result = NoDataset

NbrInit ==
    /\ \E n0 \in 1 .. MaxFeatures : track_ds \in Datasets(n0)
    /\ distance_thresholds \in ThresholdTuples
    /\ grid_spacing \in Spacings
    /\ nbr_pc = "call"
    /\ nbr_result = NoDataset

CallCountTrackNeighbors ==
    /\ nbr_pc = "call"
    /\ nbr_result' = count_track_neighbors(track_ds, distance_thresholds, grid_spacing)
    /\ nbr_pc' = "returned"
    /\ UNCHANGED <<track_ds, distance_thresholds, grid_spacing>>


(***************************************************************************)
(* cartesian_to_geographic_aeqd                                            *)
(***************************************************************************)
NaN == <<>>
PosInf == <<1, 0>>
Fin(v) == <<v>>
IsFin(f) == Len(f) = 1
IsNaN(f) == f = NaN

\* IEEE arithmetic on the values the function meets.  PosInf arises only as
\* rho / R with R = 0 and is consumed by sin and cos, which give NaN for it.
FMul(a, b) == IF IsFin(a) /\ IsFin(b) THEN Fin(a[1] * b[1]) ELSE NaN
FAdd(a, b) == IF IsFin(a) /\ IsFin(b) THEN Fin(a[1] + b[1]) ELSE NaN
FSub(a, b) == IF IsFin(a) /\ IsFin(b) THEN Fin(a[1] - b[1]) ELSE NaN
\* numpy true division: x/0 is inf (NaN for 0/0) with a warning, not an error
FDiv(a, b) ==
    IF ~(IsFin(a) /\ IsFin(b)) THEN NaN
    ELSE IF b[1] = 0 THEN (IF a[1] = 0 THEN NaN ELSE PosInf)
    ELSE IF a[1] % b[1] = 0 THEN Fin(a[1] \div b[1])
    ELSE CHOOSE q \in {} : TRUE    \* outside the exact domain: never drawn

\* np.sqrt on the perfect squares the model draws
Sqrt(n) == CHOOSE s \in 0 .. n : s * s = n

\* np.deg2rad / np.rad2deg: degrees <-> quarter turns
deg2rad(d) == d \div 90
rad2deg(f) == IF IsFin(f) THEN Fin(90 * f[1]) ELSE NaN

\* np.sin, np.cos of an angle in quarter turns
Sin(f) == IF ~IsFin(f) THEN NaN
          ELSE Fin(CASE f[1] % 4 = 0 -> 0 [] f[1] % 4 = 1 -> 1
                     [] f[1] % 4 = 2 -> 0 [] f[1] % 4 = 3 -> 0 - 1)
Cos(f) == IF ~IsFin(f) THEN NaN
          ELSE Fin(CASE f[1] % 4 = 0 -> 1 [] f[1] % 4 = 1 -> 0
                     [] f[1] % 4 = 2 -> 0 - 1 [] f[1] % 4 = 3 -> 0)

\* np.arcsin, in quarter turns; NaN outside [-1, 1]
Arcsin(f) == IF ~IsFin(f) THEN NaN
             ELSE IF f[1] \in {0 - 1, 0, 1} THEN Fin(f[1]) ELSE NaN

\* np.arctan2(a, b), in quarter turns, on the axes; arctan2(0, 0) = 0
Arctan2(a, b) ==
    IF ~(IsFin(a) /\ IsFin(b)) THEN NaN
    ELSE Fin(CASE a[1] = 0 /\ b[1] >= 0 -> 0
               [] a[1] = 0 /\ b[1] < 0 -> 2
               [] a[1] > 0 /\ b[1] = 0 -> 1
               [] a[1] < 0 /\ b[1] = 0 -> 0 - 1)

\* rho = np.sqrt(x * x + y * y), one element
Rho(x, y) == Fin(Sqrt(x * x + y * y))

\* c = rho / R
AngularDist(x, y, R) == FDiv(Rho(x, y), Fin(R))

\* lat_deg before the fix of the zero-distance elements (lines 153-156)
LatDegRaw(x, y, lat_0, R) ==
    LET c == AngularDist(x, y, R)
        lat_0_rad == Fin(deg2rad(lat_0))
    IN  rad2deg(Arcsin(FAdd(FMul(Cos(c), Sin(lat_0_rad)),
                            FDiv(FMul(FMul(Fin(y), Sin(c)), Cos(lat_0_rad)), Rho(x, y)))))

\* mutant: the zero-distance elements are not fixed
LatDeg_NoFix(x, y, lat_0, R) == LatDegRaw(x, y, lat_0, R)

\* lat_deg[rho == 0] = lat_0
LatDeg(x, y, lat_0, R) ==
    IF Rho(x, y) = Fin(0) THEN Fin(lat_0) ELSE LatDegRaw(x, y, lat_0, R)

\* mutant: x2 with the sign of its second term slipped
LonDegRaw_SignSlip(x, y, lon_0, lat_0, R) ==
    LET c == AngularDist(x, y, R)
        lat_0_rad == Fin(deg2rad(lat_0))
        lon_0_rad == Fin(deg2rad(lon_0))
        x1 == FMul(Fin(x), Sin(c))
        x2 == FAdd(FMul(FMul(Rho(x, y), Cos(lat_0_rad)), Cos(c)),
                   FMul(FMul(Fin(y), Sin(lat_0_rad)), Sin(c)))
    IN  rad2deg(FAdd(lon_0_rad, Arctan2(x1, x2)))

\* lon_deg before the adjustment to -180..180 (lines 160-163)
LonDegRaw(x, y, lon_0, lat_0, R) ==
    LET c == AngularDist(x, y, R)
        lat_0_rad == Fin(deg2rad(lat_0))
        lon_0_rad == Fin(deg2rad(lon_0))
        x1 == FMul(Fin(x), Sin(c))
        x2 == FSub(FMul(FMul(Rho(x, y), Cos(lat_0_rad)), Cos(c)),
                   FMul(FMul(Fin(y), Sin(lat_0_rad)), Sin(c)))
    IN  rad2deg(FAdd(lon_0_rad, Arctan2(x1, x2)))

\* mutant: only the subtraction above 180 is made
AdjustLon_NoRaise(lon) ==
    IF IsFin(lon) /\ lon[1] > 180 THEN Fin(lon[1] - 360) ELSE lon

\* lon_deg[lon_deg > 180] -= 360.0 ; lon_deg[lon_deg < -180] += 360.0
\* (a comparison with NaN is false: NaN is left alone)
AdjustLon(lon) ==
    LET a == IF IsFin(lon) /\ lon[1] > 180 THEN Fin(lon[1] - 360) ELSE lon
    IN  IF IsFin(a) /\ a[1] < 0 - 180 THEN Fin(a[1] + 360) ELSE a

LonDeg(x, y, lon_0, lat_0, R) == AdjustLon(LonDegRaw(x, y, lon_0, lat_0, R))

\* the function on arrays: returns <<lon_deg, lat_deg>>
cartesian_to_geographic_aeqd(x, y, lon_0, lat_0, R) ==
    << [i \in DOMAIN x |-> LonDeg(x[i], y[i], lon_0, lat_0, R)],
       [i \in DOMAIN x |-> LatDeg(x[i], y[i], lat_0, R)] >>

\* the formulas of the function's documentation (lines 100-111), one element
DocLat(x, y, lat_0, R) ==
    LET rho == Fin(Sqrt(x * x + y * y))
        c == FDiv(rho, Fin(R))
        p0 == Fin(deg2rad(lat_0))
    IN  rad2deg(Arcsin(FAdd(FMul(Cos(c), Sin(p0)),
                            FDiv(FMul(Fin(y), FMul(Sin(c), Cos(p0))), rho))))

DocLon(x, y, lon_0, lat_0, R) ==
    LET rho == Fin(Sqrt(x * x + y * y))
        c == FDiv(rho, Fin(R))
        p0 == Fin(deg2rad(lat_0))
    IN  FAdd(Fin(lon_0),
             rad2deg(Arctan2(FMul(Fin(x), Sin(c)),
                             FSub(FMul(rho, FMul(Cos(p0), Cos(c))),
                                  FMul(Fin(y), FMul(Sin(p0), Sin(c)))))))

(***************************************************************************)
(* cartesian_to_geographic_aeqd on known inputs                            *)
(***************************************************************************)
\* points on the axes through the projection origin, and the origin itself
AxisPoints ==
    {p \in (0 - MaxDist .. MaxDist) \X (0 - MaxDist .. MaxDist) : p[1] = 0 \/ p[2] = 0}

ArrayIdx == {1, 2}                 \* the arrays hold two elements
Latitudes == {0 - 90, 0, 90}       \* lat_0
Longitudes == {90 * k : k \in 0 - MaxLonQ .. MaxLonQ}   \* lon_0

\* c = rho / R is a whole number of quarter turns
ExactFor(pts, R) ==
    R # 0 => \A i \in DOMAIN pts : Sqrt(pts[i][1] * pts[i][1] + pts[i][2] * pts[i][2]) % R = 0

AeqdIdle ==
    /\ aeqd_x = <<>>
    /\ aeqd_y = <<>>
    /\ aeqd_lon_0 = 0
    /\ aeqd_lat_0 = 0
    /\ aeqd_R = 1
    /\ aeqd_pc = "idle"
    /\ aeqd_result = <<>>

AeqdInit ==
    /\ \E pts \in [ArrayIdx -> AxisPoints], R \in 0 .. MaxR :
          /\ ExactFor(pts, R)
          /\ aeqd_x = [i \in ArrayIdx |-> pts[i][1]]
          /\ aeqd_y = [i \in ArrayIdx |-> pts[i][2]]
          /\ aeqd_R = R
    /\ aeqd_lon_0 \in Longitudes
    /\ aeqd_lat_0 \in Latitudes
    /\ aeqd_pc = "call"
    /\ aeqd_result = <<>>

CallAeqd ==
    /\ aeqd_pc = "call"
    /\ aeqd_result' = cartesian_to_geographic_aeqd(aeqd_x, aeqd_y, aeqd_lon_0, aeqd_lat_0, aeqd_R)
    /\ aeqd_pc' = "returned"
    /\ UNCHANGED <<aeqd_x, aeqd_y, aeqd_lon_0, aeqd_lat_0, aeqd_R>>

(***************************************************************************)
(* Module load, cartesian_to_geographic, add_lat_lon_grid and              *)
(* load_cfradial_grids                                                     *)
(***************************************************************************)
\* R=6370997.0, the default Earth radius; the grid functions measure lengths
\* in this unit (32-bit arithmetic cannot square the figure in metres)
DefaultR == 1
SemiMajorAttr == 2 * DefaultR  \* a semi_major_axis attribute other than the default

\* the exception names bound when a function of either script runs: the
\* builtins; neither script defines or imports MissingOptionalDependency
ExceptionNames == {"IOError", "ImportError", "NameError", "KeyError"}

NoOutcome == [status |-> "none", error |-> "", raised_by |-> "", site |-> "",
              lonlat |-> <<>>, R |-> 0, added |-> {}]

\* an exception leaving `site`; raised_by is "raise" for a raise statement of
\* the script, "interpreter" for a failed import or name lookup, "library"
\* for a failure inside a library call or a mapping lookup
Raised(err, by, site) ==
    [status |-> "raised", error |-> err, raised_by |-> by, site |-> site,
     lonlat |-> <<>>, R |-> 0, added |-> {}]

\* raise <name>(...): the name is looked up first
RaiseStmt(name, site) ==
    IF name \in ExceptionNames THEN Raised(name, "raise", site)
    ELSE Raised("NameError", "interpreter", site)

Returned(lonlat, R, site) ==
    [status |-> "returned", error |-> "", raised_by |-> "", site |-> site,
     lonlat |-> lonlat, R |-> R, added |-> {}]

\* the grid axes of the dataset (x, y in units of pi/2 metres)
GridX == <<0, 2 * DefaultR>>
GridY == <<0>>
GridZ == <<0>>
GridIdx == (DOMAIN GridZ) \X (DOMAIN GridY) \X (DOMAIN GridX)
\* z, y, x = np.meshgrid(z, y, x, indexing="ij")
MeshX == [i \in GridIdx |-> GridX[i[3]]]
MeshY == [i \in GridIdx |-> GridY[i[2]]]

\* "semi_major_axis" in projparams: projparams is the DataArray of the
\* ProjectionCoordinateSystem variable, and `in` looks into its values
InProjparams(key, file) == key \in file.proj_data

\* cartesian_to_geographic(grid_ds), with _PYPROJ_AVAILABLE = avail
cartesian_to_geographic(file, avail) ==
    IF file.grid_mapping_name = "absent"
    THEN Raised("KeyError", "library", "cartesian_to_geographic")
    ELSE IF file.grid_mapping_name = "azimuthal_equidistant"
    THEN LET R == IF InProjparams("semi_major_axis", file) THEN SemiMajorAttr ELSE DefaultR
         IN  IF InProjparams("semi_major_axis", file) /\ file.semi_major_axis = "absent"
             THEN Raised("KeyError", "library", "cartesian_to_geographic")
             ELSE Returned(cartesian_to_geographic_aeqd(MeshX, MeshY, file.lon_0, file.lat_0, R),
                           R, "cartesian_to_geographic")
    ELSE IF avail # "true"
    THEN RaiseStmt("MissingOptionalDependency", "cartesian_to_geographic")
    ELSE IF file.proj_ok
    THEN Returned(<<"pyproj">>, 0, "cartesian_to_geographic")
    ELSE Raised("CRSError", "library", "cartesian_to_geographic")

\* mutant: only point_latitude is added
add_lat_lon_grid_LatitudeOnly(file, avail) ==
    LET r == cartesian_to_geographic(file, avail)
    IN  IF r.status = "returned"
        THEN [r EXCEPT !.added = {"point_latitude"}, !.site = "add_lat_lon_grid"]
        ELSE r

\* add_lat_lon_grid(grid_ds): the two variables are added when the transform returns
add_lat_lon_grid(file, avail) ==
    LET r == cartesian_to_geographic(file, avail)
    IN  IF r.status = "returned"
        THEN [r EXCEPT !.added = {"point_latitude", "point_longitude"}, !.site = "add_lat_lon_grid"]
        ELSE r

CFRadial == "CF/Radial instrument_parameters"

GridFiles ==
    [exists : BOOLEAN,
     conventions : {CFRadial, "CF-1.7", "absent"},
     grid_mapping_name : {"azimuthal_equidistant", "lambert_conformal_conic", "absent"},
     semi_major_axis : {"present", "absent"},
     proj_data : {{""}, {"semi_major_axis"}},
     proj_ok : BOOLEAN,
     lon_0 : {0 - 90}, lat_0 : {0}]

NoFile == [exists |-> FALSE, conventions |-> "absent", grid_mapping_name |-> "absent",
           semi_major_axis |-> "absent", proj_data |-> {""}, proj_ok |-> FALSE,
           lon_0 |-> 0, lat_0 |-> 0]

\* what each script calls: the tracking script defines the functions up to
\* add_lat_lon_grid, the plotting script the two loaders as well
Entries(script) ==
    IF script = "tracking" THEN {"cartesian_to_geographic", "add_lat_lon_grid"}
    ELSE {"cartesian_to_geographic", "add_lat_lon_grid", "load_cfradial_grids",
          "load_cfradial_grids_polarris"}

GridIdle ==
    /\ pyproj_installed = FALSE
    /\ pyproj_available = "unset"
    /\ grid_script = "none"
    /\ grid_entry = "none"
    /\ grid_file = NoFile
    /\ grid_pc = "idle"
    /\ ds_open = FALSE
    /\ grid_outcome = NoOutcome

GridInit ==
    /\ pyproj_installed \in BOOLEAN
    /\ pyproj_available = "unset"
    /\ grid_script \in {"tracking", "plotting"}
    /\ grid_entry \in Entries(grid_script)
    /\ grid_file \in GridFiles
    /\ grid_pc = "try_import_pyproj"
    /\ ds_open = FALSE
    /\ grid_outcome = NoOutcome

\* try: import pyproj; _PYPROJ_AVAILABLE = True / except ImportError: ... = False
TryImportPyproj ==
    /\ grid_pc = "try_import_pyproj"
    /\ pyproj_available' = IF pyproj_installed THEN "true" ELSE "false"
    /\ grid_pc' = "import_pyproj"
    /\ UNCHANGED <<pyproj_installed, grid_script, grid_entry, grid_file, ds_open, grid_outcome>>

\* the later, unguarded `import pyproj` at the top level of the module
ImportPyproj ==
    /\ grid_pc = "import_pyproj"
    /\ IF pyproj_installed
       THEN grid_pc' = "loaded" /\ UNCHANGED grid_outcome
       ELSE /\ grid_pc' = "done"
            /\ grid_outcome' = Raised("ImportError", "interpreter", "module")
    /\ UNCHANGED <<pyproj_installed, pyproj_available, grid_script, grid_entry, grid_file, ds_open>>

CallCartesianToGeographic ==
    /\ grid_pc = "loaded"
    /\ grid_entry = "cartesian_to_geographic"
    /\ grid_outcome' = cartesian_to_geographic(grid_file, pyproj_available)
    /\ grid_pc' = "done"
    /\ UNCHANGED <<pyproj_installed, pyproj_available, grid_script, grid_entry, grid_file, ds_open>>

CallAddLatLonGrid ==
    /\ grid_pc = "loaded"
    /\ grid_entry \in {"add_lat_lon_grid", "load_cfradial_grids_polarris"}
    /\ grid_outcome' = add_lat_lon_grid(grid_file, pyproj_available)
    /\ grid_pc' = "done"
    /\ UNCHANGED <<pyproj_installed, pyproj_available, grid_script, grid_entry, grid_file, ds_open>>

\* mutant: load_cfradial_grids without the check of the Conventions attribute
CallLoadCfradialGrids_NoCheck ==
    /\ grid_pc = "loaded"
    /\ grid_entry = "load_cfradial_grids"
    /\ grid_pc' = "done"
    /\ IF ~grid_file.exists
       THEN /\ grid_outcome' = Raised("OSError", "library", "load_cfradial_grids")
            /\ UNCHANGED ds_open
       ELSE /\ ds_open' = TRUE
            /\ grid_outcome' = add_lat_lon_grid(grid_file, pyproj_available)
    /\ UNCHANGED <<pyproj_installed, pyproj_available, grid_script, grid_entry, grid_file>>

\* load_cfradial_grids(file_list)
CallLoadCfradialGrids ==
    /\ grid_pc = "loaded"
    /\ grid_entry = "load_cfradial_grids"
    /\ grid_pc' = "done"
    /\ IF ~grid_file.exists
       THEN /\ grid_outcome' = Raised("OSError", "library", "load_cfradial_grids")
            /\ UNCHANGED ds_open
       ELSE IF grid_file.conventions = "absent"
       THEN /\ grid_outcome' = Raised("KeyError", "library", "load_cfradial_grids")
            /\ ds_open' = TRUE
       ELSE IF grid_file.conventions # CFRadial
       THEN /\ ds_open' = FALSE
            /\ grid_outcome' = RaiseStmt("IOError", "load_cfradial_grids")
       ELSE /\ ds_open' = TRUE
            /\ grid_outcome' = add_lat_lon_grid(grid_file, pyproj_available)
    /\ UNCHANGED <<pyproj_installed, pyproj_available, grid_script, grid_entry, grid_file>>

(***************************************************************************)
(* The tracking script: __main__                                           *)
(***************************************************************************)
DataTypes == {"NEXRAD", "NUWRF", "POLARRIS"}

\* distance_thresholds = (5.0, 10.0, 15.0, 20.0), in units of 0.5 km
DefaultThresholds == <<10, 20, 30, 40>>

FrameVar == VarName("frame")
FeatureVar == VarName("feature")
H1Var == VarName("hdim_1")
H2Var == VarName("hdim_2")
AreasVar == VarName("areas")
MaxReflVar == VarName("max_reflectivity")

Frames == TimeIndices         \* the time steps of the input
RunCells == {1, 2}            \* the grid cells of one time step
RunFeatureCounts == {1, 2}    \* how many features a run detects
RunCoords == {0, 1}           \* the grid indices of their centres
ReflValues == {NaN, Fin(20), Fin(30)}  \* reflectivity of a cell after masking

\* the feature table the tracking library detects in the input
RunTables ==
    UNION { { [n \in {FeatureVar, FrameVar, H1Var, H2Var} |->
                 IF n = FeatureVar THEN [i \in 1 .. n0 |-> i]
                 ELSE IF n = FrameVar THEN t ELSE IF n = H1Var THEN h1 ELSE h2] :
              t \in [1 .. n0 -> Frames],
              h1 \in [1 .. n0 -> RunCoords],
              h2 \in [1 .. n0 -> RunCoords] } : n0 \in RunFeatureCounts }

\* the tables whose features lie on the diagonal, feature i at (i-1, i-1)
DiagonalTables ==
    {tb \in RunTables : \A i \in 1 .. Len(tb[FeatureVar]) :
                            tb[H1Var][i] = i - 1 /\ tb[H2Var][i] = i - 1}

\* the labels a segmentation can give the cells of frame t: background or a
\* feature of that frame
LabelsOf(table, t) == {0} \cup {i \in 1 .. Len(table[FrameVar]) : table[FrameVar][i] = t}

\* the masks the watershed segmentation can return: a cell is labelled only
\* where the field exceeds the threshold (a NaN never does)
MasksOf(tb, refl, cells, threshold) ==
    {m \in [Frames -> [cells -> 0 .. Len(tb[FrameVar])]] :
        \A t \in Frames : \A c \in cells :
            /\ m[t][c] \in LabelsOf(tb, t)
            /\ m[t][c] # 0 => IsFin(refl[t][c]) /\ refl[t][c][1] > threshold}

\* --output_path, --threshold and --speed
DefaultArgs == [outdir |-> ".", threshold |-> 15, speed |-> 1]
OtherArgs == [outdir |-> "out", threshold |-> 25, speed |-> 2]

InputsOf(tables, steps, cells, values, args) ==
    UNION { UNION { [dx : {st[1]}, dt : {st[2]}, table : {tb}, refl : {rf},
                     mask : MasksOf(tb, rf, cells, a.threshold),
                     outdir : {a.outdir}, threshold : {a.threshold}, speed : {a.speed}] :
                    rf \in [Frames -> [cells -> values]] } :
            tb \in tables, st \in steps, a \in args }

\* what the command line and the files under args.path hold: the flags, the
\* grid step (m), the time step, the masked column-maximum reflectivity, and
\* what the tracking library finds in it.  Three families: feature geometry
\* on a one-cell field, fields of two cells, and the flags.
Inputs ==
    InputsOf(RunTables, {500, 1000} \X {1, 5}, {1}, {NaN, Fin(30)}, {DefaultArgs})
    \cup InputsOf(DiagonalTables, {<<500, 5>>}, RunCells, ReflValues, {DefaultArgs})
    \cup InputsOf(DiagonalTables, {<<500, 5>>}, {1}, {Fin(30)}, {DefaultArgs, OtherArgs})

\* savedir = args.data_type + "_tobac_Save_" + date, relative to the working directory
SaveDir(type) == <<".", type, "_tobac_Save_date">>
PlotDir(type) == SaveDir(type) \o <<"tobac_Plot">>
FilePath(savedir, name) == savedir \o <<name>>

Artefacts == {"Features.nc", "Mask_Segmentation_refl.nc", "Track.nc", "Track_features_merges.nc"}

NoFiles == [f \in {} |-> <<>>]
PreviousRun == [run |-> "previous", data |-> <<>>]
\* to_netcdf(path): the file is created or replaced
WriteFile(files, path, data) ==
    [f \in (DOMAIN files) \cup {path} |->
        IF f = path THEN [run |-> "this", data |-> data] ELSE files[f]]

\* os.makedirs(d) guarded by `if not os.path.exists(d)`
MakeDirs(dirs, d) == IF d \in dirs THEN dirs ELSE dirs \cup {d}

Abs(n) == IF n < 0 THEN 0 - n ELSE n

\* dxy in km as fixed point: np.abs(np.mean(deltax).astype(int)) / 1000. for the
\* radar grids, data1.DX / 1000. for the model output
Dxy(type, inp) == (Abs(0 - inp.dx) * 2) \div 1000

\* dt: the mean time step in whole minutes (radar), data1.DT (model output)
Dt(type, inp) == Abs(0 - inp.dt)

\* mutant: linking moved ahead of the annotation of areas and reflectivity
NextPc_LinkFirst(pc) ==
    CASE pc = "ingest" -> "detect"
      [] pc = "detect" -> "segment"
      [] pc = "segment" -> "link"
      [] pc = "link" -> "annotate"
      [] pc = "annotate" -> "reload"
      [] pc = "reload" -> "merge_split"
      [] pc = "merge_split" -> "standardize"
      [] pc = "standardize" -> "count_neighbors"
      [] pc = "count_neighbors" -> "save"
      [] pc = "save" -> "done"

\* the order of the statement groups of __main__
NextPc(pc) ==
    CASE pc = "ingest" -> "detect"
      [] pc = "detect" -> "segment"
      [] pc = "segment" -> "annotate"
      [] pc = "annotate" -> "link"
      [] pc = "link" -> "reload"
      [] pc = "reload" -> "merge_split"
      [] pc = "merge_split" -> "standardize"
      [] pc = "standardize" -> "count_neighbors"
      [] pc = "count_neighbors" -> "save"
      [] pc = "save" -> "done"

RunInit ==
    /\ data_type \in DataTypes \cup {"OTHER"}
    /\ input \in Inputs
    /\ \/ fs_dirs = {<<".">>} /\ fs_files = NoFiles
       \/ /\ fs_dirs = {<<".">>, SaveDir(data_type), PlotDir(data_type)}
          /\ fs_files = [f \in {FilePath(SaveDir(data_type), a) : a \in Artefacts} |-> PreviousRun]
    /\ env = [n \in {} |-> <<>>]
    /\ run_pc = "ingest"
    /\ stages = <<>>
    /\ run_error = ""

RunIdle ==
    /\ data_type = "none"
    /\ input = <<>>
    /\ fs_dirs = {}
    /\ fs_files = NoFiles
    /\ env = [n \in {} |-> <<>>]
    /\ run_pc = "idle"
    /\ stages = <<>>
    /\ run_error = ""

\* the run ends with an exception
Fails(err) ==
    /\ run_pc' = "failed"
    /\ run_error' = err
    /\ UNCHANGED <<data_type, input, fs_dirs, fs_files, env, stages>>

Bound(names) == names \subseteq DOMAIN env

\* the branches whose test `if args.data_type == '<tag>'` holds (lines 297, 331, 376)
BranchesOf(type) == {b \in DataTypes : type = b}

\* lines 296-414: the branch of the data type opens the data and binds
\* maxrefl, date, savedir, plot_dir, dt and dxy; no branch runs for another type
Ingest ==
    /\ run_pc = "ingest"
    /\ IF data_type \notin DataTypes
       THEN /\ run_pc' = NextPc(run_pc)
            /\ UNCHANGED <<data_type, input, fs_dirs, fs_files, env, stages, run_error>>
       ELSE \E ok \in BOOLEAN :
            IF ~ok THEN Fails("LibraryError")
            ELSE /\ env' = assign(assign(assign(assign(assign(env,
                               "branches", BranchesOf(data_type)),
                               "maxrefl", input.refl),
                               "savedir", SaveDir(data_type)),
                               "dt", Dt(data_type, input)),
                               "dxy", Dxy(data_type, input))
                 /\ fs_dirs' = MakeDirs(MakeDirs(fs_dirs, SaveDir(data_type)), PlotDir(data_type))
                 /\ stages' = Append(stages, "ingest")
                 /\ run_pc' = NextPc(run_pc)
                 /\ UNCHANGED <<data_type, input, fs_files, run_error>>

\* lines 420-428, 446-456: the keyword options that come from the flags
ParametersFeatures(inp) == [threshold |-> inp.threshold]
\* mutant: segmentation at the threshold of the usage example
ParametersSegmentation_Fixed(inp) == [threshold |-> DefaultArgs.threshold]
ParametersSegmentation(inp) == [threshold |-> inp.threshold]
ParametersLinking(inp) == [v_max |-> inp.speed]

\* lines 419-441: the keyword options of detection and segmentation are set,
\* feature detection runs on maxrefl, Features.nc is written
DetectFeatures ==
    /\ run_pc = "detect"
    /\ IF ~Bound({"maxrefl"}) THEN Fails("NameError")
       ELSE \E ok \in BOOLEAN :
            IF ~ok THEN Fails("LibraryError")
            ELSE /\ env' = assign(assign(assign(assign(env,
                               "parameters_features", ParametersFeatures(input)),
                               "parameters_segmentation", ParametersSegmentation(input)),
                               "detect_call", [field |-> env["maxrefl"], dxy |-> env["dxy"],
                                               threshold |-> ParametersFeatures(input).threshold]),
                               "Features", input.table)
                 /\ fs_files' = WriteFile(fs_files, FilePath(env["savedir"], "Features.nc"), input.table)
                 /\ stages' = Append(stages, "detect")
                 /\ run_pc' = NextPc(run_pc)
                 /\ UNCHANGED <<data_type, input, fs_dirs, run_error>>

\* lines 445-470: the keyword options of linking are set, segmentation runs,
\* Mask_Segmentation_refl.nc is written
Segment ==
    /\ run_pc = "segment"
    /\ \E ok \in BOOLEAN :
          IF ~ok THEN Fails("LibraryError")
          ELSE /\ env' = assign(assign(assign(env,
                             "parameters_linking", ParametersLinking(input)),
                             "segment_call", [field |-> env["maxrefl"], dxy |-> env["dxy"],
                                              threshold |-> env["parameters_segmentation"].threshold]),
                             "Mask", input.mask)
               /\ fs_files' = WriteFile(fs_files,
                                 FilePath(env["savedir"], "Mask_Segmentation_refl.nc"), input.mask)
               /\ stages' = Append(stages, "segment")
               /\ run_pc' = NextPc(run_pc)
               /\ UNCHANGED <<data_type, input, fs_dirs, run_error>>

\* mutant: the smallest finite value of the cells
NanMax_Smallest(refl_t, cells) ==
    LET fin == {c \in cells : IsFin(refl_t[c])}
    IN  IF fin = {} THEN NaN
        ELSE Fin(CHOOSE v \in {refl_t[c][1] : c \in fin} :
                    \A c \in fin : v <= refl_t[c][1])

\* np.nanmax over a set of cells of one frame
NanMax(refl_t, cells) ==
    LET fin == {c \in cells : IsFin(refl_t[c])}
    IN  IF fin = {} THEN NaN
        ELSE Fin(CHOOSE v \in {refl_t[c][1] : c \in fin} :
                    \A c \in fin : refl_t[c][1] <= v)

\* the loop of lines 478-484 over the frames that hold a feature and the
\* labels of each frame's mask: the arrays areas and maxfeature_refl, indexed
\* from 0, start at zero; the last frame that holds a label sets its entry
RECURSIVE AnnotateLoop(_, _, _, _, _)
AnnotateLoop(acc, frames, features, mask, refl) ==
    IF frames = {} THEN acc
    ELSE LET t == CHOOSE u \in frames : \A w \in frames : u <= w
             labels == {mask[t][c] : c \in DOMAIN mask[t]}
             upd == [i \in DOMAIN acc |->
                        IF i \in labels
                        THEN LET where == {c \in DOMAIN mask[t] : mask[t][c] = i}
                             IN  [area |-> Fin(Cardinality(where)),
                                  maxrefl |-> NanMax(refl[t], where)]
                        ELSE acc[i]]
         IN  AnnotateLoop(upd, frames \ {t}, features, mask, refl)

\* lines 473-496: areas and max_reflectivity added to Features, Features.nc rewritten
AnnotatedFeatures(features, mask, refl) ==
    LET n == Len(features[FeatureVar])
        zero == [i \in 0 .. n |-> [area |-> Fin(0), maxrefl |-> Fin(0)]]
        arr == AnnotateLoop(zero, {features[FrameVar][i] : i \in 1 .. n}, features, mask, refl)
    IN  assign(assign(features, AreasVar, [i \in 1 .. n |-> arr[i].area]),
               MaxReflVar, [i \in 1 .. n |-> arr[i].maxrefl])

Annotate ==
    /\ run_pc = "annotate"
    /\ LET f == AnnotatedFeatures(env["Features"], env["Mask"], env["maxrefl"])
       IN  /\ env' = assign(env, "Features", f)
           /\ fs_files' = WriteFile(fs_files, FilePath(env["savedir"], "Features.nc"), f)
    /\ stages' = Append(stages, "annotate")
    /\ run_pc' = NextPc(run_pc)
    /\ UNCHANGED <<data_type, input, fs_dirs, run_error>>

\* lines 499-505: trajectory linking, Track.nc written
Link ==
    /\ run_pc = "link"
    /\ \E ok \in BOOLEAN :
          IF ~ok THEN Fails("LibraryError")
          ELSE /\ env' = assign(assign(env,
                             "link_call", [dt |-> env["dt"], dxy |-> env["dxy"],
                                           v_max |-> env["parameters_linking"].v_max]),
                             "Track", env["Features"])
               /\ fs_files' = WriteFile(fs_files, FilePath(env["savedir"], "Track.nc"), env["Features"])
               /\ stages' = Append(stages, "link")
               /\ run_pc' = NextPc(run_pc)
               /\ UNCHANGED <<data_type, input, fs_dirs, run_error>>

\* xarray.open_dataset(savedir + "/" + name)
ReadFile(name) == fs_files[FilePath(env["savedir"], name)]

\* lines 507-510: Track, Features and refl_mask are read back from the save directory
Reload ==
    /\ run_pc = "reload"
    /\ env' = assign(assign(assign(env,
                 "Track", ReadFile("Track.nc").data),
                 "Features", ReadFile("Features.nc").data),
                 "refl_mask", ReadFile("Mask_Segmentation_refl.nc"))
    /\ run_pc' = NextPc(run_pc)
    /\ UNCHANGED <<data_type, input, fs_dirs, fs_files, stages, run_error>>

\* line 516: d = merge_split_MEST(Track, dxy*1000., distance=15000.0)
MergeSplit ==
    /\ run_pc = "merge_split"
    /\ \E ok \in BOOLEAN :
          IF ~ok THEN Fails("LibraryError")
          ELSE /\ env' = assign(env, "d", [dxy_m |-> env["dxy"] * 500])
               /\ stages' = Append(stages, "merge_split")
               /\ run_pc' = NextPc(run_pc)
               /\ UNCHANGED <<data_type, input, fs_dirs, fs_files, run_error>>

\* standardize_track_dataset: the feature variables under their feature_* names
Standardized(track) ==
    [n \in {TimeVar, Hdim1Var, Hdim2Var} |->
        IF n = TimeVar THEN track[FrameVar]
        ELSE IF n = Hdim1Var THEN track[H1Var] ELSE track[H2Var]]

\* lines 517-521: Track.nc is opened again, standardized with refl_mask and
\* merged with d into both_ds
Standardize ==
    /\ run_pc = "standardize"
    /\ LET track == ReadFile("Track.nc")
       IN  env' = assign(assign(env, "Track", track.data),
                     "both_ds", [vars |-> Standardized(track.data),
                                 track_src |-> track.run,
                                 mask_src |-> env["refl_mask"].run,
                                 mask |-> env["refl_mask"].data,
                                 d |-> env["d"]])
    /\ run_pc' = NextPc(run_pc)
    /\ UNCHANGED <<data_type, input, fs_dirs, fs_files, stages, run_error>>

\* the value passed as grid_spacing at line 523, km per cell as fixed point
GridSpacingArg == 2 * env["dt"]

\* line 523: both_ds = count_track_neighbors(both_ds, grid_spacing=dt)
CountNeighbors ==
    /\ run_pc = "count_neighbors"
    /\ env' = assign(env, "both_ds",
                 [env["both_ds"] EXCEPT !.vars =
                     count_track_neighbors(env["both_ds"].vars, DefaultThresholds, GridSpacingArg)])
    /\ stages' = Append(stages, "count_neighbors")
    /\ run_pc' = NextPc(run_pc)
    /\ UNCHANGED <<data_type, input, fs_dirs, fs_files, run_error>>

\* mutant: the merged dataset is written over Track.nc
Save_OverTrack ==
    /\ run_pc = "save"
    /\ fs_files' = WriteFile(fs_files, FilePath(env["savedir"], "Track.nc"), env["both_ds"])
    /\ stages' = Append(stages, "save")
    /\ run_pc' = NextPc(run_pc)
    /\ UNCHANGED <<data_type, input, fs_dirs, env, run_error>>

\* lines 536-537: both_ds compressed and written to Track_features_merges.nc
Save ==
    /\ run_pc = "save"
    /\ fs_files' = WriteFile(fs_files, FilePath(env["savedir"], "Track_features_merges.nc"),
                             env["both_ds"])
    /\ stages' = Append(stages, "save")
    /\ run_pc' = NextPc(run_pc)
    /\ UNCHANGED <<data_type, input, fs_dirs, env, run_error>>

(***************************************************************************)
(* The plotting script: __main__                                           *)
(***************************************************************************)
\* Strings are sequences of characters.
Sep == "/"
Max(a, b) == IF a >= b THEN a ELSE b

\* s[-9:-1]: the eight characters before the last one (fewer for a short string)
DateSlice(s) == SubSeq(s, Max(1, Len(s) - 8), Len(s) - 1)

\* the position of the last separator of s, 0 when there is none
LastSep(s) ==
    IF \E i \in 1 .. Len(s) : s[i] = Sep
    THEN CHOOSE i \in 1 .. Len(s) : s[i] = Sep /\ \A j \in i + 1 .. Len(s) : s[j] # Sep
    ELSE 0

\* the non-empty components of a path, as the file system resolves it
RECURSIVE Components(_)
Components(s) ==
    IF s = <<>> THEN <<>>
    ELSE LET k == LastSep(s)
             last == SubSeq(s, k + 1, Len(s))
             head == IF k = 0 THEN <<>> ELSE Components(SubSeq(s, 1, k - 1))
         IN  IF last = <<>> THEN head ELSE Append(head, last)

\* the directory part and the base name of a file path
DirOf(s) == Components(SubSeq(s, 1, LastSep(s)))
BaseOf(s) == SubSeq(s, LastSep(s) + 1, Len(s))

\* os.makedirs(d): d and every missing directory above it
MakeDirsAll(dirs, d) == dirs \cup {SubSeq(Components(d), 1, k) : k \in 1 .. Len(Components(d))}

\* values of --path and --tobacpath
DatedPath == <<"/", "d", "/", "2", "0", "2", "2", "0", "6", "0", "2", "/">>
PlainPath == <<"/", "d", "a", "t", "a", "/", "n", "e", "x", "r", "a", "d", "/">>
DatedTobacPath == <<"/", "t", "/", "S", "_", "2", "0", "2", "2", "0", "6", "0", "2", "/">>
PlainTobacPath == <<"/", "o", "u", "t", "/", "r", "u", "n", "1", "/">>

PlotDirName == <<"/", "t", "o", "b", "a", "c", "_", "P", "l", "o", "t", "/">>
TobacStem == <<"_", "t", "o", "b", "a", "c", "_">>
TobacNuwrfStem == <<"_", "t", "o", "b", "a", "c", "_", "N", "U", "W", "R", "F", "_">>

\* `if j <150: continue` in the loop of the NUWRF branch
SkipBefore == 150

TimeCounts == {2, SkipBefore + 2}   \* timesteps of the input
TrackCounts == {0, 1, 2}            \* tracks of the merged dataset

\* the grid files the radar branches read
PlotGridFiles ==
    {g \in GridFiles : /\ g.exists /\ g.proj_ok /\ g.semi_major_axis = "present"
                       /\ g.conventions # "absent" /\ g.grid_mapping_name # "absent"
                       /\ g.proj_data = {""}}

PlotArgs ==
    [data_type : DataTypes \cup {"OTHER"},
     path : {DatedPath, PlainPath},
     tobacpath : {DatedTobacPath, PlainTobacPath}]

PlotData == [ntimes : TimeCounts, ntracks : TrackCounts, grid : PlotGridFiles]

NoPlotFs == [dirs |-> {}, files |-> {}, writes |-> <<>>]

\* load_cfradial_grids(file_list) as a function of the file
load_cfradial_grids(file, avail) ==
    IF ~file.exists THEN Raised("OSError", "library", "load_cfradial_grids")
    ELSE IF file.conventions = "absent" THEN Raised("KeyError", "library", "load_cfradial_grids")
    ELSE IF file.conventions # CFRadial THEN RaiseStmt("IOError", "load_cfradial_grids")
    ELSE add_lat_lon_grid(file, avail)

\* the PNG a savefig call names: the path is plot_dir + date + stem + str(t) + ".png"
PngOf(path, t) == [dir |-> DirOf(path), base |-> BaseOf(path), t |-> t]

PlotInit ==
    /\ plot_args \in PlotArgs
    /\ plot_data \in PlotData
    /\ \E have \in {"nothing", "tobacpath", "plot_dir"} :
          plot_fs = [NoPlotFs EXCEPT !.dirs =
              IF have = "nothing" THEN {}
              ELSE IF have = "tobacpath" THEN MakeDirsAll({}, plot_args.tobacpath)
              ELSE MakeDirsAll({}, plot_args.tobacpath \o PlotDirName)]
    /\ plot_env = [n \in {} |-> <<>>]
    /\ plot_pc = "open_both_ds"
    /\ figs = <<>>
    /\ plot_error = ""

PlotIdle ==
    /\ plot_args = <<>>
    /\ plot_data = <<>>
    /\ plot_fs = NoPlotFs
    /\ plot_env = [n \in {} |-> <<>>]
    /\ plot_pc = "idle"
    /\ figs = <<>>
    /\ plot_error = ""

PlotFails(err) ==
    /\ plot_pc' = "failed"
    /\ plot_error' = err
    /\ UNCHANGED <<plot_args, plot_data, plot_fs, plot_env, figs>>

\* line 448: both_ds = xr.open_dataset(os.path.join(args.tobacpath, "Track_features_merges.nc"))
OpenBothDs ==
    /\ plot_pc = "open_both_ds"
    /\ IF Components(plot_args.tobacpath) \notin plot_fs.dirs
       THEN PlotFails("FileNotFoundError")
       ELSE /\ plot_env' = assign(plot_env, "both_ds", plot_data.ntracks)
            /\ plot_pc' = "make_plot_dir"
            /\ UNCHANGED <<plot_args, plot_data, plot_fs, figs, plot_error>>

\* lines 450-452: plot_dir is made when it does not exist
MakePlotDir ==
    /\ plot_pc = "make_plot_dir"
    /\ LET plot_dir == plot_args.tobacpath \o PlotDirName
       IN  /\ plot_env' = assign(plot_env, "plot_dir", plot_dir)
           /\ plot_fs' = [plot_fs EXCEPT !.dirs =
                 IF Components(plot_dir) \in plot_fs.dirs THEN @ ELSE MakeDirsAll(@, plot_dir)]
    /\ plot_pc' = "branch"
    /\ UNCHANGED <<plot_args, plot_data, figs, plot_error>>

\* mutant: the last branch taken for every type that is not NEXRAD or NUWRF
PlotIngest_LastBranchAsElse ==
    /\ plot_pc = "branch"
    /\ IF FALSE
       THEN /\ plot_pc' = "done"
            /\ UNCHANGED <<plot_args, plot_data, plot_fs, plot_env, figs, plot_error>>
       ELSE \E ok \in BOOLEAN :
            IF ~ok THEN PlotFails("LibraryError")
            ELSE LET nc_grid == IF plot_args.data_type = "NEXRAD"
                                THEN load_cfradial_grids(plot_data.grid, "true")
                                ELSE add_lat_lon_grid(plot_data.grid, "true")
                     e1 == IF plot_args.data_type = "NEXRAD"
                           THEN assign(plot_env, "date", DateSlice(plot_args.path))
                           ELSE IF plot_args.data_type = "NUWRF"
                           THEN assign(plot_env, "date", DateSlice(plot_args.tobacpath))
                           ELSE plot_env
                 IN  IF plot_args.data_type # "NUWRF" /\ nc_grid.status = "raised"
                     THEN PlotFails(nc_grid.error)
                     ELSE /\ plot_env' = assign(e1, "i", 0)
                          /\ plot_pc' = "loop"
                          /\ UNCHANGED <<plot_args, plot_data, plot_fs, figs, plot_error>>

\* the statements of the branch of the data type ahead of its loop
\* (lines 454-469, 478-501, 538-556); no branch runs for another type
PlotIngest ==
    /\ plot_pc = "branch"
    /\ IF plot_args.data_type \notin DataTypes
       THEN /\ plot_pc' = "done"
            /\ UNCHANGED <<plot_args, plot_data, plot_fs, plot_env, figs, plot_error>>
       ELSE \E ok \in BOOLEAN :
            IF ~ok THEN PlotFails("LibraryError")
            ELSE LET nc_grid == IF plot_args.data_type = "NEXRAD"
                                THEN load_cfradial_grids(plot_data.grid, "true")
                                ELSE add_lat_lon_grid(plot_data.grid, "true")
                     e1 == IF plot_args.data_type = "NEXRAD"
                           THEN assign(plot_env, "date", DateSlice(plot_args.path))
                           ELSE IF plot_args.data_type = "NUWRF"
                           THEN assign(plot_env, "date", DateSlice(plot_args.tobacpath))
                           ELSE plot_env
                 IN  IF plot_args.data_type # "NUWRF" /\ nc_grid.status = "raised"
                     THEN PlotFails(nc_grid.error)
                     ELSE /\ plot_env' = assign(e1, "i", 0)
                          /\ plot_pc' = "loop"
                          /\ UNCHANGED <<plot_args, plot_data, plot_fs, figs, plot_error>>

\* the head of the loop over the timesteps (lines 470, 502-505, 557)
LoopHead ==
    /\ plot_pc = "loop"
    /\ IF plot_env["i"] >= plot_data.ntimes
       THEN plot_pc' = "done" /\ UNCHANGED plot_env
       ELSE IF plot_args.data_type = "NUWRF" /\ plot_env["i"] < SkipBefore
       THEN plot_pc' = "loop" /\ plot_env' = assign(plot_env, "i", plot_env["i"] + 1)
       ELSE plot_pc' = "create" /\ UNCHANGED plot_env
    /\ UNCHANGED <<plot_args, plot_data, plot_fs, figs, plot_error>>

Event(fs, e) == [fs EXCEPT ![Len(fs)] = Append(@, e)]

RECURSIVE Events(_, _, _)
Events(fs, e, n) == IF n = 0 THEN fs ELSE Events(Event(fs, e), e, n - 1)

\* plt.figure(...) (lines 472, 559), plt.subplots(...) (line 507)
CreateFigure ==
    /\ plot_pc = "create"
    /\ figs' = Append(figs, <<"create">>)
    /\ plot_pc' = "draw"
    /\ UNCHANGED <<plot_args, plot_data, plot_fs, plot_env, plot_error>>

\* plot(time_index, both_ds, maxrefl, nc_grid) (lines 474, 561): grid_proj is
\* bound for the azimuthal equidistant mapping only; the background and then
\* every track are drawn
CallPlot ==
    /\ plot_pc = "draw"
    /\ plot_args.data_type # "NUWRF"
    /\ IF plot_data.grid.grid_mapping_name # "azimuthal_equidistant"
       THEN PlotFails("UnboundLocalError")
       ELSE \E ok \in BOOLEAN :
            IF ~ok THEN PlotFails("LibraryError")
            ELSE /\ figs' = Events(Event(figs, "draw"), "track", plot_env["both_ds"])
                 /\ plot_pc' = "save"
                 /\ UNCHANGED <<plot_args, plot_data, plot_fs, plot_env, plot_error>>

\* lines 508-519: the reflectivity and the mask of timestep j are drawn
DrawBackground ==
    /\ plot_pc = "draw"
    /\ plot_args.data_type = "NUWRF"
    /\ figs' = Event(figs, "draw")
    /\ plot_env' = assign(plot_env, "k", 1)
    /\ plot_pc' = "track"
    /\ UNCHANGED <<plot_args, plot_data, plot_fs, plot_error>>

\* fig.savefig(path): the attempt is recorded; the file is written when its
\* directory exists
SaveFigTo(path, t) ==
    LET png == PngOf(path, t)
        ok == png.dir \in plot_fs.dirs
    IN  [plot_fs EXCEPT !.files = IF ok THEN @ \cup {png} ELSE @,
                        !.writes = Append(@, [png |-> png, ok |-> ok])]

\* lines 521-535: one pass of the loop over both_ds['track'] in the NUWRF
\* branch: the cells of the track are drawn, the figure is saved and closed
TrackBody ==
    /\ plot_pc = "track"
    /\ IF plot_env["k"] > plot_env["both_ds"]
       THEN /\ plot_env' = assign(plot_env, "i", plot_env["i"] + 1)
            /\ plot_pc' = "loop"
            /\ UNCHANGED <<plot_args, plot_data, plot_fs, figs, plot_error>>
       ELSE LET path == plot_env["plot_dir"] \o plot_env["date"] \o TobacNuwrfStem
                fs1 == SaveFigTo(path, plot_env["i"])
            IN  /\ plot_fs' = fs1
                /\ IF fs1.writes[Len(fs1.writes)].ok
                   THEN /\ figs' = Event(Event(Event(figs, "track"), "save"), "close")
                        /\ plot_env' = assign(plot_env, "k", plot_env["k"] + 1)
                        /\ plot_pc' = "track"
                        /\ UNCHANGED plot_error
                   ELSE /\ figs' = Event(figs, "track")
                        /\ plot_pc' = "failed"
                        /\ plot_error' = "FileNotFoundError"
                        /\ UNCHANGED plot_env
                /\ UNCHANGED <<plot_args, plot_data>>

\* fig.savefig(plot_dir + date + ... + str(time_index) + ".png") (lines 475, 562)
SaveFig ==
    /\ plot_pc = "save"
    /\ IF "date" \notin DOMAIN plot_env
       THEN PlotFails("NameError")
       ELSE LET stem == IF plot_args.data_type = "NEXRAD" THEN TobacStem ELSE TobacNuwrfStem
                fs1 == SaveFigTo(plot_env["plot_dir"] \o plot_env["date"] \o stem, plot_env["i"])
            IN  /\ plot_fs' = fs1
                /\ IF fs1.writes[Len(fs1.writes)].ok
                   THEN /\ figs' = Event(figs, "save")
                        /\ plot_pc' = "close"
                        /\ UNCHANGED plot_error
                   ELSE /\ plot_pc' = "failed"
                        /\ plot_error' = "FileNotFoundError"
                        /\ UNCHANGED figs
                /\ UNCHANGED <<plot_args, plot_data, plot_env>>

\* plt.close(fig) (lines 476, 563) and the step to the next timestep
CloseFig ==
    /\ plot_pc = "close"
    /\ figs' = Event(figs, "close")
    /\ plot_env' = assign(plot_env, "i", plot_env["i"] + 1)
    /\ plot_pc' = "loop"
    /\ UNCHANGED <<plot_args, plot_data, plot_fs, plot_error>>

(***************************************************************************)
(* time_in_range                                                           *)
(***************************************************************************)
\* mutant: the end of the range left out
time_in_range_EndExcluded(start, end, x) ==
    IF start <= end THEN start <= x /\ x < end
    ELSE start <= x \/ x < end

\* time_in_range(start, end, x)
time_in_range(start, end, x) ==
    IF start <= end THEN start <= x /\ x <= end
    ELSE start <= x \/ x <= end

Times == 0 .. MaxTime

TirIdle ==
    /\ tir_start = 0 /\ tir_end = 0 /\ tir_x = 0
    /\ tir_pc = "idle"
    /\ tir_result = FALSE

TirInit ==
    /\ tir_start \in Times /\ tir_end \in Times /\ tir_x \in Times
    /\ tir_pc = "call"
    /\ tir_result = FALSE

CallTimeInRange ==
    /\ tir_pc = "call"
    /\ tir_result' = time_in_range(tir_start, tir_end, tir_x)
    /\ tir_pc' = "returned"
    /\ UNCHANGED <<tir_start, tir_end, tir_x>>

(***************************************************************************)
(* plot(t_index, xrdata, max_refl, ncgrid): the cell loop and the track    *)
(* loop.  A cell id is a float (<<v>> or NaN); feature columns hold        *)
(* integers.  A position is the pair of grid indices at which ncgrid's     *)
(* point_longitude and point_latitude are read.                            *)
(***************************************************************************)
MaxStep == 2           \* t_index and feature_time_index run over 0..MaxStep
MaxPlotFeatures == 2   \* a track dataset holds up to MaxPlotFeatures features

PlotCoords == {0, 1}
FeatureParents == {1, 2}
TrackIds == <<0>>

\* the cells of a dataset as pairs of columns: cell, cell_parent_track_id
PlotCells ==
    { [cell |-> <<Fin(1)>>, cell_parent_track_id |-> <<0>>],
      [cell |-> <<Fin(0 - 1), Fin(1)>>, cell_parent_track_id |-> <<0 - 1, 0>>],
      [cell |-> <<Fin(1), Fin(2)>>, cell_parent_track_id |-> <<0, 0 - 1>>],
      [cell |-> <<NaN, Fin(1)>>, cell_parent_track_id |-> <<0 - 1, 0>>],
      [cell |-> <<Fin(2), NaN>>, cell_parent_track_id |-> <<0 - 1, 0>>] }

\* the datasets of n features
TrackDatasets(n) ==
    { [cell |-> c.cell,
       cell_parent_track_id |-> c.cell_parent_track_id,
       track |-> TrackIds,
       feature_parent_cell_id |-> fp,
       feature_time_index |-> ft,
       feature_hdim1_coordinate |-> h1,
       feature_hdim2_coordinate |-> h2] :
      c \in PlotCells,
      fp \in [1 .. n -> FeatureParents],
      ft \in [1 .. n -> 0 .. MaxStep],
      h1 \in [1 .. n -> PlotCoords],
      h2 \in [1 .. n -> PlotCoords] }

\* a dataset of the same shape whose features lie elsewhere on the grid
Moved(ds) ==
    [ds EXCEPT !.feature_hdim1_coordinate = [k \in DOMAIN @ |-> 1 - @[k]]]

\* the module globals a call of plot can find: both_ds is bound by __main__
\* (line 448) and by nothing else
NoGlobals == <<>>
GlobalsOf(xrdata) ==
    {NoGlobals, assign(NoGlobals, "both_ds", xrdata), assign(NoGlobals, "both_ds", Moved(xrdata))}

\* np.where(column == value)[0]; nothing equals NaN
Where(column, value) ==
    IF value = NaN THEN {} ELSE {k \in DOMAIN column : column[k] = value[1]}

WhereInt(column, value) == {k \in DOMAIN column : column[k] = value}

\* column[index]: the entries at the given indices, in order
Take(column, index) ==
    LET f[k \in 0 .. Len(column)] ==
            IF k = 0 THEN <<>>
            ELSE IF k \in index THEN Append(f[k - 1], column[k]) ELSE f[k - 1]
    IN  f[Len(column)]

nanmax(s) == CHOOSE v \in {s[k] : k \in DOMAIN s} : \A k \in DOMAIN s : s[k] <= v
nanmin(s) == CHOOSE v \in {s[k] : k \in DOMAIN s} : \A k \in DOMAIN s : v <= s[k]

\* i < 0 and math.isfinite(i) on a cell id
Negative(i) == i # NaN /\ i[1] < 0
isfinite(i) == i # NaN

Points(ds, index) ==
    LET h1 == Take(ds.feature_hdim1_coordinate, index)
        h2 == Take(ds.feature_hdim2_coordinate, index)
    IN  [k \in DOMAIN h1 |-> <<h1[k], h2[k]>>]

Artist(kind, cell, color, text, at) ==
    [kind |-> kind, cell |-> cell, color |-> color, text |-> text, at |-> at]

\* lines 367-418 and 428-436: the time test on the features of a cell, then
\* axs[0].plot along the features of xrdata and axs[0].text at the last
\* feature of the global both_ds.  np.nanmax of an empty selection raises
\* ValueError; reading an unbound global raises NameError.
DrawCell(xrdata, globals, t_index, cell, color, text) ==
    LET track_i == Where(xrdata.feature_parent_cell_id, cell)
        times == Take(xrdata.feature_time_index, track_i)
        path == Artist("plot", cell, color, text, Points(xrdata, track_i))
    IN  IF track_i = {} THEN [drawn |-> <<>>, error |-> "ValueError"]
        ELSE IF nanmax(times) >= t_index /\ nanmin(times) <= t_index
        THEN IF "both_ds" \notin DOMAIN globals
             THEN [drawn |-> <<path>>, error |-> "NameError"]
             ELSE LET at == Points(globals["both_ds"], track_i)
                  IN  [drawn |-> <<path, Artist("text", cell, color, text, <<at[Len(at)]>>)>>,
                       error |-> ""]
        ELSE [drawn |-> <<>>, error |-> ""]

\* lines 424-438: the cells of one track, in order, up to the first exception
RECURSIVE DrawTrack(_, _, _, _, _, _)
DrawTrack(xrdata, globals, t_index, track, cells, from) ==
    IF from > Len(cells) THEN [drawn |-> <<>>, error |-> ""]
    ELSE IF Negative(cells[from])
    THEN DrawTrack(xrdata, globals, t_index, track, cells, from + 1)
    ELSE LET r == DrawCell(xrdata, globals, t_index, cells[from], "b", track)
         IN  IF r.error # "" THEN r
             ELSE LET rest == DrawTrack(xrdata, globals, t_index, track, cells, from + 1)
                  IN  [drawn |-> r.drawn \o rest.drawn, error |-> rest.error]

PlotCallIdle ==
    /\ plt_args = [t_index |-> 0]
    /\ plt_globals = NoGlobals
    /\ plt_pc = "idle"
    /\ plt_k = 0
    /\ plt_axs = <<>>
    /\ plt_error = ""

PlotCallInit ==
    /\ \E t \in 0 .. MaxStep, n \in 0 .. MaxPlotFeatures :
       \E ds \in TrackDatasets(n) :
        /\ plt_args = [t_index |-> t, xrdata |-> ds]
        /\ plt_globals \in GlobalsOf(ds)
    /\ plt_pc = "call"
    /\ plt_k = 0
    /\ plt_axs = <<>>
    /\ plt_error = ""

\* lines 284-359: the background of the figure
plot_Enter ==
    /\ plt_pc = "call"
    /\ plt_pc' = "cells"
    /\ plt_k' = 1
    /\ UNCHANGED <<plt_args, plt_globals, plt_axs, plt_error>>

\* lines 361-420: one pass of `for i in xrdata["cell"]`
plot_CellLoop ==
    /\ plt_pc = "cells"
    /\ LET xrdata == plt_args.xrdata
       IN  IF plt_k > Len(xrdata.cell)
           THEN /\ plt_pc' = "tracks"
                /\ plt_k' = 1
                /\ UNCHANGED <<plt_axs, plt_error>>
           ELSE LET i == xrdata.cell[plt_k]
                IN  IF Negative(i) \/ ~isfinite(i)
                    THEN /\ plt_k' = plt_k + 1
                         /\ UNCHANGED <<plt_pc, plt_axs, plt_error>>
                    ELSE LET r == DrawCell(xrdata, plt_globals, plt_args.t_index, i, "r", i[1])
                         IN  /\ plt_axs' = plt_axs \o r.drawn
                             /\ plt_error' = r.error
                             /\ plt_pc' = IF r.error = "" THEN "cells" ELSE "raised"
                             /\ plt_k' = IF r.error = "" THEN plt_k + 1 ELSE plt_k
    /\ UNCHANGED <<plt_args, plt_globals>>

\* lines 422-438: one pass of `for i in xrdata['track']`
plot_TrackLoop ==
    /\ plt_pc = "tracks"
    /\ LET xrdata == plt_args.xrdata
       IN  IF plt_k > Len(xrdata.track)
           THEN /\ plt_pc' = "returned"
                /\ UNCHANGED <<plt_k, plt_axs, plt_error>>
           ELSE LET i == xrdata.track[plt_k]
                    track_i == WhereInt(xrdata.cell_parent_track_id, i)
                    r == DrawTrack(xrdata, plt_globals, plt_args.t_index, i,
                                   Take(xrdata.cell, track_i), 1)
                IN  /\ plt_axs' = plt_axs \o r.drawn
                    /\ plt_error' = r.error
                    /\ plt_pc' = IF r.error = "" THEN "tracks" ELSE "raised"
                    /\ plt_k' = IF r.error = "" THEN plt_k + 1 ELSE plt_k
    /\ UNCHANGED <<plt_args, plt_globals>>

(***************************************************************************)
(* Specifications                                                          *)
(***************************************************************************)
OnlyNbr == UNCHANGED <<aeqdVars, gridVars, runVars, plotVars, tirVars, pltVars>>
OnlyAeqd == UNCHANGED <<nbrVars, gridVars, runVars, plotVars, tirVars, pltVars>>
OnlyGrid == UNCHANGED <<nbrVars, aeqdVars, runVars, plotVars, tirVars, pltVars>>
OnlyRun == UNCHANGED <<nbrVars, aeqdVars, gridVars, plotVars, tirVars, pltVars>>
OnlyPlot == UNCHANGED <<nbrVars, aeqdVars, gridVars, runVars, tirVars, pltVars>>
OnlyPlotCall == UNCHANGED <<nbrVars, aeqdVars, gridVars, runVars, plotVars, tirVars>>
OnlyTir == UNCHANGED <<nbrVars, aeqdVars, gridVars, runVars, plotVars, pltVars>>

InitNeighbors == NbrInit /\ AeqdIdle /\ GridIdle /\ RunIdle /\ PlotIdle /\ TirIdle /\ PlotCallIdle
NextNeighbors == CallCountTrackNeighbors /\ OnlyNbr
SpecNeighbors == InitNeighbors /\ [][NextNeighbors]_vars

InitAeqd == AeqdInit /\ NbrIdle /\ GridIdle /\ RunIdle /\ PlotIdle /\ TirIdle /\ PlotCallIdle
NextAeqd == CallAeqd /\ OnlyAeqd
SpecAeqd == InitAeqd /\ [][NextAeqd]_vars

InitGrid == GridInit /\ NbrIdle /\ AeqdIdle /\ RunIdle /\ PlotIdle /\ TirIdle /\ PlotCallIdle
NextGrid ==
    \/ TryImportPyproj /\ OnlyGrid
    \/ ImportPyproj /\ OnlyGrid
    \/ CallCartesianToGeographic /\ OnlyGrid
    \/ CallAddLatLonGrid /\ OnlyGrid
    \/ CallLoadCfradialGrids /\ OnlyGrid
SpecGrid == InitGrid /\ [][NextGrid]_vars

InitRun == RunInit /\ NbrIdle /\ AeqdIdle /\ GridIdle /\ PlotIdle /\ TirIdle /\ PlotCallIdle
NextRun ==
    \/ Ingest /\ OnlyRun
    \/ DetectFeatures /\ OnlyRun
    \/ Segment /\ OnlyRun
    \/ Annotate /\ OnlyRun
    \/ Link /\ OnlyRun
    \/ Reload /\ OnlyRun
    \/ MergeSplit /\ OnlyRun
    \/ Standardize /\ OnlyRun
    \/ CountNeighbors /\ OnlyRun
    \/ Save /\ OnlyRun
SpecRun == InitRun /\ [][NextRun]_vars

InitPlot == PlotInit /\ NbrIdle /\ AeqdIdle /\ GridIdle /\ RunIdle /\ TirIdle /\ PlotCallIdle
NextPlot ==
    \/ OpenBothDs /\ OnlyPlot
    \/ MakePlotDir /\ OnlyPlot
    \/ PlotIngest /\ OnlyPlot
    \/ LoopHead /\ OnlyPlot
    \/ CreateFigure /\ OnlyPlot
    \/ CallPlot /\ OnlyPlot
    \/ DrawBackground /\ OnlyPlot
    \/ TrackBody /\ OnlyPlot
    \/ SaveFig /\ OnlyPlot
    \/ CloseFig /\ OnlyPlot
SpecPlot == InitPlot /\ [][NextPlot]_vars

InitTimeInRange == TirInit /\ NbrIdle /\ AeqdIdle /\ GridIdle /\ RunIdle /\ PlotIdle /\ PlotCallIdle
NextTimeInRange == CallTimeInRange /\ OnlyTir
SpecTimeInRange == InitTimeInRange /\ [][NextTimeInRange]_vars

InitPlotCall == PlotCallInit /\ NbrIdle /\ AeqdIdle /\ GridIdle /\ RunIdle /\ PlotIdle /\ TirIdle
NextPlotCall ==
    \/ plot_Enter /\ OnlyPlotCall
    \/ plot_CellLoop /\ OnlyPlotCall
    \/ plot_TrackLoop /\ OnlyPlotCall
SpecPlotCall == InitPlotCall /\ [][NextPlotCall]_vars

InitScripts ==
    /\ \/ RunInit /\ PlotIdle
       \/ PlotInit /\ RunIdle
    /\ NbrIdle /\ AeqdIdle /\ GridIdle /\ TirIdle /\ PlotCallIdle
NextScripts ==
    \/ Ingest /\ OnlyRun
    \/ DetectFeatures /\ OnlyRun
    \/ Segment /\ OnlyRun
    \/ Annotate /\ OnlyRun
    \/ Link /\ OnlyRun
    \/ Reload /\ OnlyRun
    \/ MergeSplit /\ OnlyRun
    \/ Standardize /\ OnlyRun
    \/ CountNeighbors /\ OnlyRun
    \/ Save /\ OnlyRun
    \/ OpenBothDs /\ OnlyPlot
    \/ MakePlotDir /\ OnlyPlot
    \/ PlotIngest /\ OnlyPlot
    \/ LoopHead /\ OnlyPlot
    \/ CreateFigure /\ OnlyPlot
    \/ CallPlot /\ OnlyPlot
    \/ DrawBackground /\ OnlyPlot
    \/ TrackBody /\ OnlyPlot
    \/ SaveFig /\ OnlyPlot
    \/ CloseFig /\ OnlyPlot
SpecScripts == InitScripts /\ [][NextScripts]_vars

(***************************************************************************)
(* Claims about count_track_neighbors                                      *)
(***************************************************************************)
\* the number of other features at the same time index within r of feature i,
\* by direct pairwise check on the scaled (hdim2, hdim1) coordinates
PairwiseCount(ds, gs, r, i) ==
    Cardinality({j \in FeatureIdx(ds) \ {i} :
        /\ ds[TimeVar][j] = ds[TimeVar][i]
        /\ (ds[Hdim2Var][j] - ds[Hdim2Var][i]) * (ds[Hdim2Var][j] - ds[Hdim2Var][i]) * gs * gs
           + (ds[Hdim1Var][j] - ds[Hdim1Var][i]) * (ds[Hdim1Var][j] - ds[Hdim1Var][i]) * gs * gs
           <= r * r})

C3_OneColumnPerRadius ==
    nbr_pc = "returned" =>
        /\ Cardinality((DOMAIN nbr_result) \ (DOMAIN track_ds)) = Len(distance_thresholds)
        /\ \A k \in 1 .. Len(distance_thresholds) :
              LET r == distance_thresholds[k]
              IN  /\ NearbyVarName(r) \in DOMAIN nbr_result
                  /\ nbr_result[NearbyVarName(r)] = NumObj(track_ds, grid_spacing, r)
        /\ \A n \in DOMAIN track_ds : n \in DOMAIN nbr_result /\ nbr_result[n] = track_ds[n]

(***************************************************************************)
(* Claims about cartesian_to_geographic_aeqd                               *)
(***************************************************************************)
AtOrigin(i) == aeqd_x[i] = 0 /\ aeqd_y[i] = 0
LonOut(i) == aeqd_result[1][i]
LatOut(i) == aeqd_result[2][i]
InLonRange(f) == IsFin(f) /\ 0 - 180 <= f[1] /\ f[1] <= 180

\* C4 (as stated): for every element with x = 0 and y = 0, and any lon_0,
\* lat_0 and R, the returned latitude is exactly lat_0 and the returned
\* longitude is lon_0 normalised into -180..180, never NaN.
C4_OriginAnyR ==
    aeqd_pc = "returned" =>
        \A i \in DOMAIN aeqd_x : AtOrigin(i) =>
            /\ LatOut(i) = Fin(aeqd_lat_0)
            /\ InLonRange(LonOut(i))
            /\ (LonOut(i)[1] - aeqd_lon_0) % 360 = 0

\* C4 (amended): for every element with x = 0 and y = 0 the returned latitude
\* is exactly lat_0 whatever R is; when R # 0 the returned longitude is lon_0
\* after the single adjustment by 360 (lon_0 itself when it lies in
\* -180..180) and is not NaN; when R = 0 the returned longitude is NaN.
\* An element with rho # 0 keeps the latitude of the formula.
C4_OriginLatLon ==
    aeqd_pc = "returned" =>
        \A i \in DOMAIN aeqd_x :
            /\ AtOrigin(i) =>
                  /\ LatOut(i) = Fin(aeqd_lat_0)
                  /\ aeqd_R # 0 =>
                        LonOut(i) = Fin(IF aeqd_lon_0 > 180 THEN aeqd_lon_0 - 360
                                        ELSE IF aeqd_lon_0 < 0 - 180 THEN aeqd_lon_0 + 360
                                        ELSE aeqd_lon_0)
                  /\ aeqd_R = 0 => IsNaN(LonOut(i))
            /\ ~AtOrigin(i) =>
                  LatOut(i) = DocLat(aeqd_x[i], aeqd_y[i], aeqd_lat_0, aeqd_R)

\* a call with one element at the origin and one away from it, R # 0
C4_Witness ==
    /\ aeqd_pc = "returned"
    /\ aeqd_R # 0
    /\ aeqd_lat_0 = 90
    /\ AtOrigin(1) /\ ~AtOrigin(2)
    /\ LatOut(1) = Fin(90) /\ LatOut(2) # Fin(90)

KnownLat(x, y, R) ==
    LET k == (Sqrt(x * x + y * y) \div R) % 4
    IN  IF y = 0 THEN 0
        ELSE (IF y > 0 THEN 1 ELSE 0 - 1) * (CASE k = 0 -> 0 [] k = 1 -> 90 [] k = 2 -> 0 [] k = 3 -> 0 - 90)
KnownLon(x, y, lon_0, R) ==
    LET k == (Sqrt(x * x + y * y) \div R) % 4
    IN  IF y = 0 THEN lon_0 + (IF x > 0 THEN 90 * k ELSE 0 - 90 * k)
        ELSE IF k = 2 THEN lon_0 + 180 ELSE lon_0
AtPole(x, y, R) == y # 0 /\ (Sqrt(x * x + y * y) \div R) % 2 = 1

\* C6: for the elements away from the origin (R # 0) the returned latitude is
\* that of the documented azimuthal-equidistant formula and the returned
\* longitude is the formula's lon_0 + atan2(...) up to the adjustment by 360;
\* from an origin on the equator both are the known point of the great circle,
\* also when the longitude crosses +/-180.
C6_ReferenceProjection ==
    (aeqd_pc = "returned" /\ aeqd_R # 0) =>
        \A i \in DOMAIN aeqd_x : ~AtOrigin(i) =>
            LET x == aeqd_x[i]
                y == aeqd_y[i]
                ref == DocLon(x, y, aeqd_lon_0, aeqd_lat_0, aeqd_R)
            IN  /\ LatOut(i) = DocLat(x, y, aeqd_lat_0, aeqd_R)
                /\ IsFin(LonOut(i)) /\ IsFin(ref)
                /\ LonOut(i)[1] - ref[1] \in {0 - 360, 0, 360}
                /\ aeqd_lat_0 = 0 =>
                      /\ LatOut(i) = Fin(KnownLat(x, y, aeqd_R))
                      /\ ~AtPole(x, y, aeqd_R) =>
                            (LonOut(i)[1] - KnownLon(x, y, aeqd_lon_0, aeqd_R)) % 360 = 0

\* a call from an equatorial origin at lon_0 = 180 with one element a quarter
\* turn to the east (across the wrap) and one half a turn to the north
C6_Witness ==
    /\ aeqd_pc = "returned"
    /\ aeqd_R = 1 /\ aeqd_lat_0 = 0 /\ aeqd_lon_0 = 180
    /\ aeqd_x = <<1, 0>> /\ aeqd_y = <<0, 2>>
    /\ LonOut(1) = Fin(0 - 90) /\ LatOut(1) = Fin(0)
    /\ LonOut(2) = Fin(0) /\ LatOut(2) = Fin(0)

(***************************************************************************)
(* Claims about the failures of the grid functions                         *)
(***************************************************************************)
ReachesTransform ==
    \/ grid_entry \in {"cartesian_to_geographic", "add_lat_lon_grid", "load_cfradial_grids_polarris"}
    \/ grid_entry = "load_cfradial_grids" /\ grid_file.exists /\ grid_file.conventions = CFRadial

\* C7: with pyproj absent, a call that reaches cartesian_to_geographic ends in
\* the missing-optional-dependency failure when the grid mapping is another
\* than azimuthal_equidistant, and returns lon/lat without failure when the
\* grid mapping is azimuthal_equidistant.
C7_MissingDependencyFailure ==
    (grid_pc = "done" /\ ~pyproj_installed /\ ReachesTransform) =>
        /\ grid_file.grid_mapping_name = "lambert_conformal_conic" =>
              /\ grid_outcome.status = "raised"
              /\ grid_outcome.error = "MissingOptionalDependency"
              /\ grid_outcome.raised_by = "raise"
        /\ grid_file.grid_mapping_name = "azimuthal_equidistant" =>
              grid_outcome.status = "returned"

\* C8 (as stated): the missing-projection-dependency failure is the only
\* error a raise statement of the repository raises.
C8_SingleExplicitRaise ==
    grid_outcome.raised_by = "raise" => grid_outcome.error = "MissingOptionalDependency"

\* C8 (amended): a raise statement of the repository delivers its exception
\* exactly when load_cfradial_grids has opened a dataset whose Conventions
\* attribute is present and is not 'CF/Radial instrument_parameters': the
\* dataset is closed and IOError is raised.  Every other failure comes from a
\* library call, a mapping lookup or the interpreter (the failed import).
C8_ExplicitRaises ==
    grid_pc = "done" =>
        /\ grid_outcome.raised_by = "raise" <=>
              /\ pyproj_installed
              /\ grid_entry = "load_cfradial_grids"
              /\ grid_file.exists
              /\ grid_file.conventions \notin {"absent", CFRadial}
        /\ grid_outcome.raised_by = "raise" =>
              /\ grid_outcome.error = "IOError"
              /\ grid_outcome.site = "load_cfradial_grids"
              /\ ~ds_open
        /\ (grid_outcome.status = "raised" /\ grid_outcome.raised_by # "raise") =>
              grid_outcome.raised_by \in {"library", "interpreter"}

\* load_cfradial_grids has raised IOError on a dataset of other conventions
C8_Witness ==
    /\ grid_pc = "done"
    /\ grid_entry = "load_cfradial_grids"
    /\ grid_file.conventions = "CF-1.7"
    /\ grid_outcome.status = "raised"
    /\ grid_outcome.error = "IOError"
    /\ grid_outcome.raised_by = "raise"

(***************************************************************************)
(* Claims about a run of the tracking script                               *)
(***************************************************************************)
IsPrefix(a, b) == Len(a) <= Len(b) /\ \A i \in 1 .. Len(a) : a[i] = b[i]
Done(stage) == \E i \in 1 .. Len(stages) : stages[i] = stage
MergedPath == FilePath(SaveDir(data_type), "Track_features_merges.nc")
WrittenThisRun(name) ==
    /\ FilePath(SaveDir(data_type), name) \in DOMAIN fs_files
    /\ fs_files[FilePath(SaveDir(data_type), name)].run = "this"

\* C2: once the neighbour counts are taken in the pipeline, the count of every
\* feature for every radius 5, 10, 15, 20 km is the number of other features
\* of its time step within that radius of it, the grid-index coordinates being
\* multiplied by the horizontal grid spacing dxy.
C2_CountsInPhysicalUnits ==
    Done("count_neighbors") =>
        \A k \in 1 .. Len(DefaultThresholds) : \A i \in FeatureIdx(env["both_ds"].vars) :
            env["both_ds"].vars[NearbyVarName(DefaultThresholds[k])][i]
                = PairwiseCount(env["both_ds"].vars, env["dxy"], DefaultThresholds[k], i)

\* C9 (as stated): the stages of every run happen in the order ingest,
\* detection, segmentation, linking, merge/split, annotation (area and
\* maximum reflectivity, neighbour counts), final save.
C9_ClaimedStageOrder ==
    IsPrefix(stages, <<"ingest", "detect", "segment", "link", "merge_split",
                       "annotate", "count_neighbors", "save">>)

\* C9 (amended): the stages of every run happen in the order ingest,
\* detection, segmentation, annotation of area and maximum reflectivity,
\* linking, merge/split, neighbour counts, final save, each after the one
\* before it has finished; Track_features_merges.nc is written only after
\* merge/split and neighbour counting.
C9_StageOrder ==
    /\ IsPrefix(stages, <<"ingest", "detect", "segment", "annotate", "link",
                          "merge_split", "count_neighbors", "save">>)
    /\ WrittenThisRun("Track_features_merges.nc") =>
          Done("merge_split") /\ Done("count_neighbors")
    /\ run_pc = "done" => Len(stages) = 8

\* a completed run
C9_Witness ==
    /\ run_pc = "done"
    /\ stages = <<"ingest", "detect", "segment", "annotate", "link",
                  "merge_split", "count_neighbors", "save">>
    /\ WrittenThisRun("Track_features_merges.nc")

\* C10: a run that completes is of one of the three data types and leaves in
\* its save directory exactly the four files Features.nc,
\* Mask_Segmentation_refl.nc, Track.nc and Track_features_merges.nc, all
\* written by this run; the track table and the mask merged into the last
\* file are those of the Track.nc and Mask_Segmentation_refl.nc of this run.
C10_FourArtefacts ==
    run_pc = "done" =>
        /\ data_type \in DataTypes
        /\ DOMAIN fs_files = {FilePath(SaveDir(data_type), a) : a \in Artefacts}
        /\ \A a \in Artefacts : WrittenThisRun(a)
        /\ LET merged == fs_files[MergedPath].data
               track == fs_files[FilePath(SaveDir(data_type), "Track.nc")].data
               mask == fs_files[FilePath(SaveDir(data_type), "Mask_Segmentation_refl.nc")].data
           IN  /\ merged.track_src = "this" /\ merged.mask_src = "this"
               /\ merged.mask = mask
               /\ \A n \in {TimeVar, Hdim1Var, Hdim2Var} :
                     merged.vars[n] = Standardized(track)[n]

\* a completed NUWRF run into a save directory that held the files of a previous run
C10_Witness ==
    /\ run_pc = "done"
    /\ data_type = "NUWRF"
    /\ \A a \in Artefacts : WrittenThisRun(a)
    /\ fs_files[MergedPath].data.track_src = "this"

(***************************************************************************)
(* Claims about a run of the plotting script                               *)
(***************************************************************************)
\* C11: the directory a file is written into exists before the write: every
\* savefig the plotting script attempts names a file in an existing directory.
C11_DirectoryExistsBeforeWrite ==
    \A k \in DOMAIN plot_fs.writes : plot_fs.writes[k].ok

PngsOf(t) == {f \in plot_fs.files : f.t = t}
Supported == plot_args.data_type \in DataTypes

\* C12: a run of the plotting script on one of the three data types that ends
\* without a library failure has written, for every timestep index t from 0
\* to the number of timesteps minus one, exactly one PNG whose name ends in
\* _<t>.png; no such run is ended by an undefined name of the script.
C12_OnePngPerTimestep ==
    /\ (plot_pc = "done" /\ Supported) =>
          \A t \in 0 .. plot_data.ntimes - 1 : Cardinality(PngsOf(t)) = 1
    /\ plot_error # "NameError"

(***************************************************************************)
(* Claims about the derived columns and the flags of the tracking script   *)
(***************************************************************************)
\* the cells of the mask of f's frame that are labelled f
CellsOf(f) ==
    LET t == input.table[FrameVar][f]
    IN  {c \in DOMAIN input.mask[t] : input.mask[t][c] = f}

\* the largest of a non-empty set of integers
Largest(S) == CHOOSE v \in S : \A w \in S : w <= v

FeaturesOnDisk == fs_files[FilePath(SaveDir(data_type), "Features.nc")].data

\* the columns feature f should carry in a table
ColumnsRight(tab, f) ==
    LET t == input.table[FrameVar][f]
        finite == {input.refl[t][c][1] : c \in {d \in CellsOf(f) : IsFin(input.refl[t][d])}}
    IN  /\ AreasVar \in DOMAIN tab /\ MaxReflVar \in DOMAIN tab
        /\ tab[AreasVar][f] = Fin(Cardinality(CellsOf(f)))
        /\ CellsOf(f) = {} => tab[MaxReflVar][f] = Fin(0)
        /\ CellsOf(f) # {} => finite # {} /\ tab[MaxReflVar][f] = Fin(Largest(finite))

\* C13: after the annotation step, for every detected feature f, 'areas' is
\* the number of cells labelled f in the mask of f's frame and
\* 'max_reflectivity' the largest non-NaN reflectivity over those cells, both
\* 0 for a feature with no labelled cell; the background label adds to no
\* feature; the Features.nc on disk carries both columns from then on.
C13_DerivedColumns ==
    Done("annotate") =>
        \A f \in 1 .. Len(input.table[FeatureVar]) :
            /\ ColumnsRight(env["Features"], f)
            /\ ColumnsRight(FeaturesOnDisk, f)

\* a completed run with a feature of two cells of different reflectivity, a
\* feature with no cell, and a background cell beside it
C13_Witness ==
    /\ run_pc = "done"
    /\ Len(input.table[FeatureVar]) = 2
    /\ Cardinality(CellsOf(1)) = 2 /\ CellsOf(2) = {}
    /\ FeaturesOnDisk[MaxReflVar][1] = Fin(30)
    /\ \E c \in RunCells : input.refl[input.table[FrameVar][1]][c] = Fin(20)
    /\ \E c \in RunCells : input.mask[input.table[FrameVar][2]][c] = 0
    /\ FeaturesOnDisk[AreasVar] = <<Fin(2), Fin(0)>>

\* a path of the file system lies beneath the directory --output_path names
\* (paths start at the working directory ".")
BeneathOutdir(path) ==
    IF input.outdir = "." THEN path[1] = "."
    ELSE Len(path) >= 2 /\ path[1] = "." /\ path[2] = input.outdir

\* C14: the save directory the run creates and every NetCDF file it writes
\* lie beneath the directory given by -o/--output_path, for any value of the flag.
C14_ArtefactsBeneathOutputPath ==
    /\ \A f \in DOMAIN fs_files : fs_files[f].run = "this" => BeneathOutdir(f)
    /\ Done("ingest") => BeneathOutdir(env["savedir"])

\* C15: each supported type tag is handled by exactly one ingest branch, which
\* binds maxrefl, dxy, dt and savedir before feature detection starts; the
\* --threshold value is the threshold of feature detection and of
\* segmentation, the --speed value the v_max of linking.
C15_BranchesAndFlags ==
    /\ (data_type \in DataTypes /\ Done("ingest")) => env["branches"] = {data_type}
    /\ (data_type \in DataTypes /\ run_pc = "detect") =>
          Bound({"maxrefl", "dxy", "dt", "savedir"})
    /\ Done("detect") =>
          /\ env["detect_call"].threshold = input.threshold
          /\ env["detect_call"].field = input.refl
    /\ Done("segment") => env["segment_call"].threshold = input.threshold
    /\ Done("link") => env["link_call"].v_max = input.speed

\* a completed run with flags other than those of the usage example
C15_Witness ==
    /\ run_pc = "done"
    /\ data_type = "POLARRIS"
    /\ input.threshold = OtherArgs.threshold /\ input.speed = OtherArgs.speed
    /\ env["segment_call"].threshold = OtherArgs.threshold
    /\ env["link_call"].v_max = OtherArgs.speed
    /\ env["branches"] = {"POLARRIS"}

(***************************************************************************)
(* Claims about the Earth radius and the grid loader                       *)
(***************************************************************************)
\* the transform of an azimuthal equidistant grid has returned
AeqdReturned ==
    /\ grid_pc = "done"
    /\ grid_outcome.status = "returned"
    /\ grid_file.grid_mapping_name = "azimuthal_equidistant"

\* C16: for azimuthal_equidistant metadata the Earth radius passed to the
\* closed-form transform is the semi_major_axis attribute when the metadata
\* carries one, and the default R = 6370997.0 only when it carries none.
C16_SemiMajorAxisIsR ==
    AeqdReturned =>
        /\ grid_file.semi_major_axis = "present" => grid_outcome.R = SemiMajorAttr
        /\ grid_file.semi_major_axis = "absent" => grid_outcome.R = DefaultR

(***************************************************************************)
(* Claims about time_in_range                                              *)
(***************************************************************************)
\* the values of the range from start to end, both included, going round
\* through MaxTime and 0 when start > end
RangeOf(start, end) ==
    IF start <= end THEN start .. end
    ELSE (start .. MaxTime) \cup (0 .. end)

\* C17: time_in_range(start, end, x) is true exactly when x is in the range
\* [start, end]: start <= x <= end for start <= end, x >= start or x <= end
\* for start > end; both endpoints are in the range in every case.
C17_TimeInRange ==
    tir_pc = "returned" =>
        /\ tir_result = (tir_x \in RangeOf(tir_start, tir_end))
        /\ tir_x \in {tir_start, tir_end} => tir_result
        /\ tir_start <= tir_end => (tir_result <=> (tir_start <= tir_x /\ tir_x <= tir_end))
        /\ tir_start > tir_end => (tir_result <=> (tir_x >= tir_start \/ tir_x <= tir_end))

\* the end point of a range that wraps around is found in the range
C17_Witness ==
    /\ tir_pc = "returned"
    /\ tir_start > tir_end /\ tir_x = tir_end /\ tir_x > 0
    /\ tir_result

\* load_cfradial_grids has run on a dataset it could open
LoaderRan ==
    /\ grid_pc = "done"
    /\ pyproj_installed
    /\ grid_entry = "load_cfradial_grids"
    /\ grid_file.exists

LatLonVars == {"point_latitude", "point_longitude"}

\* C18 (as stated): when the Conventions attribute of the opened dataset is
\* not exactly 'CF/Radial instrument_parameters' the dataset is closed, IOError
\* is raised and no variable is added; otherwise the dataset is returned with
\* point_latitude and point_longitude added.
C18_LoaderOutcomes ==
    LoaderRan =>
        IF grid_file.conventions # CFRadial
        THEN /\ grid_outcome.status = "raised" /\ grid_outcome.error = "IOError"
             /\ ~ds_open
             /\ grid_outcome.added = {}
        ELSE /\ grid_outcome.status = "returned"
             /\ grid_outcome.added = LatLonVars

\* C18 (amended): a Conventions attribute that is present and is not exactly
\* 'CF/Radial instrument_parameters' has the dataset closed and IOError
\* raised, no variable added; an absent attribute ends the call with KeyError,
\* the dataset left open; with the exact attribute the dataset is returned
\* with point_latitude and point_longitude added (nothing else changed) when
\* the coordinate transform of the dataset returns, and the transform's
\* exception leaves the call, no variable added, when it does not.
C18_LoaderOutcomesByCase ==
    LoaderRan =>
        IF grid_file.conventions = "absent"
        THEN /\ grid_outcome.status = "raised" /\ grid_outcome.error = "KeyError"
             /\ grid_outcome.raised_by = "library"
             /\ ds_open
             /\ grid_outcome.added = {}
        ELSE IF grid_file.conventions # CFRadial
        THEN /\ grid_outcome.status = "raised" /\ grid_outcome.error = "IOError"
             /\ grid_outcome.raised_by = "raise"
             /\ ~ds_open
             /\ grid_outcome.added = {}
        ELSE LET r == cartesian_to_geographic(grid_file, "true")
             IN  IF r.status = "returned"
                 THEN /\ grid_outcome.status = "returned"
                      /\ grid_outcome.added = LatLonVars
                      /\ grid_outcome.lonlat = r.lonlat
                      /\ ds_open
                 ELSE /\ grid_outcome.status = "raised"
                      /\ grid_outcome.error = r.error
                      /\ grid_outcome.site = "cartesian_to_geographic"
                      /\ grid_outcome.added = {}

\* a CF/Radial grid of azimuthal equidistant projection has been loaded
C18_Witness ==
    /\ LoaderRan
    /\ grid_file.conventions = CFRadial
    /\ grid_file.grid_mapping_name = "azimuthal_equidistant"
    /\ grid_outcome.status = "returned"
    /\ grid_outcome.added = LatLonVars
    /\ ds_open

(***************************************************************************)
(* Claims about the figures of the plotting script                         *)
(***************************************************************************)
RECURSIVE Repeat(_, _)
Repeat(e, n) == IF n = 0 THEN <<>> ELSE Append(Repeat(e, n - 1), e)

\* the events of a figure that is created, drawn with all tracks, saved once
\* and closed
FullCycle == <<"create", "draw">> \o Repeat("track", plot_data.ntracks) \o <<"save", "close">>

\* C19: every figure of the plotting script goes through create, draw, save,
\* close in that order exactly once: all tracks are drawn before the single
\* save, nothing is drawn or saved on a closed figure, and a figure the script
\* has left behind (the loop moved on, the run ended, or the script stopped
\* on an undefined name) has been saved and closed; for every data type and
\* any number of tracks.
C19_FigureLifecycle ==
    \A k \in DOMAIN figs :
        /\ IsPrefix(figs[k], FullCycle)
        /\ (k < Len(figs) \/ plot_pc = "done" \/ plot_error = "NameError") => figs[k] = FullCycle

(***************************************************************************)
(* Claims about plot                                                       *)
(***************************************************************************)
PlotCallEnded == plt_pc \in {"returned", "raised"}

\* the features of xrdata whose feature_parent_cell_id is the cell
FeaturesOf(cell) ==
    IF cell = NaN THEN {}
    ELSE {k \in DOMAIN plt_args.xrdata.feature_parent_cell_id :
            plt_args.xrdata.feature_parent_cell_id[k] = cell[1]}

\* the cell id is non-negative and finite and t_index lies between the first
\* and the last feature_time_index of the cell
Due(cell) ==
    /\ cell # NaN
    /\ cell[1] >= 0
    /\ \E k \in FeaturesOf(cell) : plt_args.xrdata.feature_time_index[k] <= plt_args.t_index
    /\ \E k \in FeaturesOf(cell) : plt_args.xrdata.feature_time_index[k] >= plt_args.t_index

Drawn(kind, cell) == \E a \in DOMAIN plt_axs : plt_axs[a].kind = kind /\ plt_axs[a].cell = cell

\* the positions of the features of the cell in xrdata, in order
PathIn(cell) ==
    LET idx == FeaturesOf(cell)
        n == Cardinality(idx)
        at[j \in 1 .. n] == CHOOSE k \in idx : Cardinality({m \in idx : m <= k}) = j
    IN  [j \in 1 .. n |-> <<plt_args.xrdata.feature_hdim1_coordinate[at[j]],
                            plt_args.xrdata.feature_hdim2_coordinate[at[j]]>>]

\* C20: once a call plot(t_index, xrdata, ...) has ended, a cell of xrdata
\* has its path and its label drawn if and only if its id is non-negative and
\* finite and min(feature_time_index) <= t_index <= max(feature_time_index)
\* over its features; a cell of negative id is never drawn; the path runs
\* along the features of the cell in xrdata and the label sits at the last
\* of them, read from xrdata.
C20_CellsDrawnFromXrdata ==
    PlotCallEnded =>
        /\ \A k \in DOMAIN plt_args.xrdata.cell :
            LET cell == plt_args.xrdata.cell[k]
            IN  /\ Drawn("plot", cell) <=> Due(cell)
                /\ Drawn("text", cell) <=> Due(cell)
        /\ \A a \in DOMAIN plt_axs :
            LET path == PathIn(plt_axs[a].cell)
            IN  IF plt_axs[a].kind = "plot" THEN plt_axs[a].at = path
                ELSE plt_axs[a].at = <<path[Len(path)]>>

(***************************************************************************)
(* Claims about a --type that names no ingest branch                       *)
(***************************************************************************)
UnknownTracking == run_pc # "idle" /\ data_type \notin DataTypes
UnknownPlotting == plot_pc # "idle" /\ plot_args.data_type \notin DataTypes

\* the tracking script has run no stage, can only stop on the unbound name
\* maxrefl, and holds no file written by this run
TrackingStopsEarly ==
    /\ run_pc \in {"ingest", "detect", "failed"}
    /\ stages = <<>>
    /\ run_pc = "failed" => run_error = "NameError"
    /\ \A f \in DOMAIN fs_files : fs_files[f].run # "this"

\* the plotting script renders nothing; it ends without an error and with
\* its plot directory in place, unless the merged dataset under tobacpath
\* could not be opened
PlottingRendersNothing ==
    /\ figs = <<>>
    /\ plot_fs.files = {}
    /\ plot_fs.writes = <<>>
    /\ plot_pc = "failed" => "both_ds" \notin DOMAIN plot_env
    /\ plot_pc = "done" =>
          /\ plot_error = ""
          /\ Components(plot_args.tobacpath \o PlotDirName) \in plot_fs.dirs

\* C21: for a --type that is none of NEXRAD, NUWRF, POLARRIS no ingest branch
\* runs.  The tracking script then fails (NameError) before it creates any
\* directory and before it writes any artefact; the plotting script, once it
\* has opened the merged dataset, creates the plot directory, renders no
\* image and ends without an error.
C21_UnknownType ==
    /\ [](UnknownTracking => TrackingStopsEarly)
    /\ [][UnknownTracking => (fs_dirs' = fs_dirs /\ fs_files' = fs_files)]_vars
    /\ [](UnknownPlotting => PlottingRendersNothing)

\* a plotting run of an unknown type has ended with its plot directory in
\* place and no figure created
C21_Witness ==
    /\ UnknownPlotting
    /\ plot_pc = "done"
    /\ plot_error = ""
    /\ figs = <<>>
    /\ Components(plot_args.tobacpath \o PlotDirName) \in plot_fs.dirs

====
